---- MODULE Spec2Model ----
(***************************************************************************)
(* Gradebook: grade aggregation (GradeTable, ReportsView, SubjectView      *)
(* e-mails, CSV export) and the evaluation validator of SubjectView, on    *)
(* top of the SQL store driven by App.                                     *)
(*                                                                         *)
(* Numbers are exact rationals [num, den] in lowest terms; JavaScript      *)
(* doubles are not modelled bit by bit.  An optional value (a nullable     *)
(* score, the result of Array.find, the editing target, the result of      *)
(* parseFloat) is a sequence of length 0 or 1.  Text typed by the user is  *)
(* a sequence of one-character strings, numeric text is the decimal text   *)
(* of an integer.                                                          *)
(***************************************************************************)
EXTENDS Integers, Sequences, FiniteSets, TLC

VARIABLES
    variant,            \* which SubjectView build runs: "percorte" or "simple"
    db,                 \* the SQL store: tables students, evaluations, enrollments, grades
    now,                \* Date.now(), the source of evaluation ids
    selectedSubjectId,  \* App state: the subject whose page is open
    students,           \* currentStudents handed to the views
    evaluations,        \* currentEvaluations handed to the views
    grades,             \* currentGrades handed to the views
    isEvalModalOpen,    \* SubjectView state
    editingEvaluation,  \* SubjectView state: <<>> (null) or <<evaluation>>
    newEval,            \* SubjectView state: the form, three texts
    error,              \* SubjectView state: the message shown in the modal
    saved,              \* the callback the last save invoked, <<>> if none
    manualEntryError,   \* StudentManualEntry state: the message under the form
    inflight,           \* App: the handlers that have started and not yet finished
    localStorage,       \* the browser's localStorage: legacy keys, 'sqlite-db', the flag
    rendered            \* what the last roll-up consumer produced

vars == <<variant, db, now, selectedSubjectId, students, evaluations, grades, isEvalModalOpen,
          editingEvaluation, newEval, error, saved, manualEntryError, inflight,
          localStorage, rendered>>

(***************************************************************************)
(* Bounds                                                                  *)
(***************************************************************************)
MaxAdds == 2
MaxSnapshotEvals == 2

(***************************************************************************)
(* Exact arithmetic                                                        *)
(***************************************************************************)
Abs(x) == IF x < 0 THEN -x ELSE x

RECURSIVE GCD(_, _)
GCD(a, b) == IF b = 0 THEN a ELSE GCD(b, a % b)

Sign(x) == IF x < 0 THEN -1 ELSE IF x = 0 THEN 0 ELSE 1

\* n/d in lowest terms with a positive denominator; den = 0 stands for the
\* non-finite results of a division by zero (Infinity, -Infinity, NaN).
Rat(n, d) ==
    IF d = 0 THEN [num |-> Sign(n), den |-> 0]
    ELSE LET g == GCD(Abs(n), Abs(d))
         IN  [num |-> Sign(d) * (n \div g), den |-> Abs(d) \div g]

Num(n) == [num |-> n, den |-> 1]
Zero == Num(0)
RatAdd(a, b) == Rat(a.num * b.den + b.num * a.den, a.den * b.den)
RatSub(a, b) == Rat(a.num * b.den - b.num * a.den, a.den * b.den)
RatMul(a, b) == Rat(a.num * b.num, a.den * b.den)
RatDiv(a, b) == Rat(a.num * b.den, a.den * b.num)
RatGt(a, b) == a.num * b.den > b.num * a.den
RatLe(a, b) == ~RatGt(a, b)
RatLt(a, b) == RatGt(b, a)
RatGe(a, b) == ~RatGt(b, a)

\* Number.prototype.toFixed(2): the nearest multiple of 1/100, halves away
\* from zero, kept as the number the two-decimal text denotes.
ToFixed2(a) ==
    LET n == Abs(a.num) * 200 + a.den
        q == n \div (2 * a.den)
    IN  Rat(Sign(a.num) * q, 100)

(***************************************************************************)
(* Optional values and array helpers                                       *)
(***************************************************************************)
Null == <<>>
Some(x) == <<x>>

RECURSIVE Filter(_, _)
Filter(Keep(_), seq) ==
    IF seq = <<>> THEN <<>>
    ELSE IF Keep(Head(seq)) THEN <<Head(seq)>> \o Filter(Keep, Tail(seq))
         ELSE Filter(Keep, Tail(seq))

\* Array.prototype.find: the first element that satisfies the test.
Find(Test(_), seq) ==
    LET hits == Filter(Test, seq)
    IN  IF hits = <<>> THEN Null ELSE Some(Head(hits))

\* Array.prototype.reduce from an initial value, left to right.
RECURSIVE Reduce(_, _, _)
Reduce(Step(_, _), seq, init) ==
    IF seq = <<>> THEN init
    ELSE Reduce(Step, Tail(seq), Step(init, Head(seq)))

\* Array.prototype.sort with a comparison function: stable, by insertion.
RECURSIVE Insert(_, _, _)
Insert(Before(_, _), x, sorted) ==
    IF sorted = <<>> THEN <<x>>
    ELSE IF Before(x, Head(sorted)) THEN <<x>> \o sorted
         ELSE <<Head(sorted)>> \o Insert(Before, x, Tail(sorted))

RECURSIVE SortBy(_, _)
SortBy(Before(_, _), seq) ==
    IF seq = <<>> THEN <<>>
    ELSE Insert(Before, seq[Len(seq)], SortBy(Before, SubSeq(seq, 1, Len(seq) - 1)))

(***************************************************************************)
(* Text                                                                    *)
(***************************************************************************)
CharRank(ch) ==
    CASE ch = " " -> 0
      [] ch = "A" -> 1
      [] ch = "B" -> 2
      [] ch = "Q" -> 3
      [] ch = "T" -> 4
      [] OTHER    -> 5

\* String.prototype.localeCompare(a, b) < 0 on the texts of the model.
RECURSIVE LocaleLess(_, _)
LocaleLess(a, b) ==
    IF b = <<>> THEN FALSE
    ELSE IF a = <<>> THEN TRUE
    ELSE IF CharRank(Head(a)) # CharRank(Head(b))
         THEN CharRank(Head(a)) < CharRank(Head(b))
         ELSE LocaleLess(Tail(a), Tail(b))

RECURSIVE TrimStart(_)
TrimStart(s) ==
    IF s # <<>> /\ Head(s) = " " THEN TrimStart(Tail(s)) ELSE s

RECURSIVE TrimEnd(_)
TrimEnd(s) ==
    IF s # <<>> /\ s[Len(s)] = " " THEN TrimEnd(SubSeq(s, 1, Len(s) - 1)) ELSE s

\* String.prototype.trim
Trim(s) == TrimEnd(TrimStart(s))

(***************************************************************************)
(* Roll-ups shared by the views                                            *)
(***************************************************************************)
Cortes == {1, 2, 3}

NameBefore(a, b) == LocaleLess(a.name, b.name)

\* a lookup that forgets the student: the first row of the evaluation
getGrade_AnyStudent(gs, studentId, evaluationId) ==
    Find(LAMBDA g : g.evaluationId = evaluationId, gs)

\* getGrade: grades.find(g => g.studentId === studentId && g.evaluationId === evaluationId)
getGrade(gs, studentId, evaluationId) ==
    Find(LAMBDA g : g.studentId = studentId /\ g.evaluationId = evaluationId, gs)

\* grade?.score ?? 0
ScoreOrZero(grade) ==
    IF grade = Null THEN 0
    ELSE IF grade[1].score = Null THEN 0 ELSE grade[1].score[1]

\* score * (ev.percentage / 100)
Weighted(score, ev) == RatMul(Num(score), RatDiv(Num(ev.percentage), Num(100)))

\* (total, ev) => total + score * (ev.percentage / 100), score = grade?.score ?? 0
AddWeighted(gs, studentId, total, ev) ==
    RatAdd(total, Weighted(ScoreOrZero(getGrade(gs, studentId, ev.id)), ev))

\* evals.reduce((total, ev) => total + ev.percentage, 0)
SumPercentage(evals) ==
    Reduce(LAMBDA total, ev : total + ev.percentage, evals, 0)

(***************************************************************************)
(* GradeTable                                                              *)
(***************************************************************************)
\* useMemo: the evaluations of one corte, sorted by name
evaluationsByCorte(evals, corte) ==
    SortBy(NameBefore, Filter(LAMBDA ev : ev.corte = corte, evals))

calculateWeightedCorteSum(evals, gs, studentId, corte) ==
    LET corteEvals == evaluationsByCorte(evals, corte)
    IN  IF Len(corteEvals) = 0 THEN Zero
        ELSE Reduce(LAMBDA total, ev : AddWeighted(gs, studentId, total, ev),
                    corteEvals, Zero)

\* the earlier GradeTable: same roll-up under its earlier name
calculateCorteTotal(evals, gs, studentId, corte) ==
    LET corteEvals == evaluationsByCorte(evals, corte)
    IN  IF Len(corteEvals) = 0 THEN Zero
        ELSE Reduce(LAMBDA total, ev : AddWeighted(gs, studentId, total, ev),
                    corteEvals, Zero)

\* a 'Total Corte' that is left on the weighted scale
calculateNormalizedCorteGrade_NotNormalized(evals, gs, studentId, corte) ==
    calculateWeightedCorteSum(evals, gs, studentId, corte)

\* the weighted sum shared out over the number of evaluations of the corte
calculateNormalizedCorteGrade_DividedByCount(evals, gs, studentId, corte) ==
    LET corteEvals == evaluationsByCorte(evals, corte)
        weightedSum == calculateWeightedCorteSum(evals, gs, studentId, corte)
    IN  IF Len(corteEvals) = 0 THEN Zero
        ELSE RatDiv(weightedSum, Num(Len(corteEvals)))

calculateNormalizedCorteGrade(evals, gs, studentId, corte) ==
    LET corteEvals == evaluationsByCorte(evals, corte)
        weightedSum == calculateWeightedCorteSum(evals, gs, studentId, corte)
        totalPercentageInCorte == SumPercentage(corteEvals)
    IN  IF Len(corteEvals) = 0 THEN Zero
        ELSE IF totalPercentageInCorte = 0 THEN Zero
        ELSE RatDiv(weightedSum, RatDiv(Num(totalPercentageInCorte), Num(100)))

\* a final grade that leaves the third corte out
GradeTableFinalGrade_WithoutCorte3(evals, gs, studentId) ==
    RatAdd(calculateWeightedCorteSum(evals, gs, studentId, 1),
           calculateWeightedCorteSum(evals, gs, studentId, 2))

\* const finalGrade = weightedCorte1 + weightedCorte2 + weightedCorte3
GradeTableFinalGrade(evals, gs, studentId) ==
    RatAdd(RatAdd(calculateWeightedCorteSum(evals, gs, studentId, 1),
                  calculateWeightedCorteSum(evals, gs, studentId, 2)),
           calculateWeightedCorteSum(evals, gs, studentId, 3))

\* [...students].sort(by name): a sorted copy, the prop is left alone
sortedStudents(studs) == SortBy(NameBefore, studs)

\* one <tr> of the table: the 'Total Corte' cells exist for the cortes that
\* have evaluations, every number is shown with toFixed(2)
\* (the earlier GradeTable of the simple build shows calculateCorteTotal there)
GradeTableRow(build, evals, gs, student) ==
    [studentId  |-> student.id,
     totalCorte |-> [c \in {k \in Cortes : Len(evaluationsByCorte(evals, k)) > 0} |->
                        IF build = "percorte"
                        THEN ToFixed2(calculateNormalizedCorteGrade(evals, gs, student.id, c))
                        ELSE ToFixed2(calculateCorteTotal(evals, gs, student.id, c))],
     finalGrade |-> ToFixed2(GradeTableFinalGrade(evals, gs, student.id))]

GradeTableRows(build, studs, evals, gs) ==
    LET sorted == sortedStudents(studs)
    IN  [i \in 1..Len(sorted) |-> GradeTableRow(build, evals, gs, sorted[i])]

(***************************************************************************)
(* ReportsView                                                             *)
(***************************************************************************)
PassingGrade == 10

\* the comparison turned round: lowest score first
ScoreDescending_Ascending(a, b) == RatLt(a.score, b.score)

ScoreDescending(a, b) == RatGt(a.score, b.score)

RatMax(a, b) == IF RatGt(b, a) THEN b ELSE a
RatMin(a, b) == IF RatLt(b, a) THEN b ELSE a

\* buckets that take their upper limit in: 0-4, 4.1-8, ...
Bucket_UpperInclusive(score) ==
    IF RatLe(score, Num(4)) THEN 1
    ELSE IF RatLe(score, Num(8)) THEN 2
    ELSE IF RatLe(score, Num(12)) THEN 3
    ELSE IF RatLe(score, Num(16)) THEN 4
    ELSE 5

\* the bucket of one score: 0-3.9, 4-7.9, 8-11.9, 12-15.9, 16-20
Bucket(score) ==
    IF RatLt(score, Num(4)) THEN 1
    ELSE IF RatLt(score, Num(8)) THEN 2
    ELSE IF RatLt(score, Num(12)) THEN 3
    ELSE IF RatLt(score, Num(16)) THEN 4
    ELSE 5

\* the statistics of no scores computed as those of a non-empty list: 0 / 0
EmptyStats_AverageOfNothing ==
    [average |-> RatDiv(Zero, Num(0)), highest |-> Zero, lowest |-> Zero, passed |-> 0,
     failed |-> 0, passRate |-> RatDiv(Zero, Num(0)), distribution |-> <<0, 0, 0, 0, 0>>,
     approvedStudents |-> <<>>, failedStudents |-> <<>>]

EmptyStats ==
    [average |-> Zero, highest |-> Zero, lowest |-> Zero, passed |-> 0,
     failed |-> 0, passRate |-> Zero, distribution |-> <<0, 0, 0, 0, 0>>,
     approvedStudents |-> <<>>, failedStudents |-> <<>>]

\* calculateStats passing only the scores above the passing grade
calculateStats_PassAbove(studentScores) ==
    IF Len(studentScores) = 0 THEN EmptyStats
    ELSE
    LET scores == [i \in 1..Len(studentScores) |-> studentScores[i].score]
        average == RatDiv(Reduce(LAMBDA a, b : RatAdd(a, b), scores, Zero),
                          Num(Len(scores)))
        highest == Reduce(LAMBDA a, b : RatMax(a, b), Tail(scores), Head(scores))
        lowest == Reduce(LAMBDA a, b : RatMin(a, b), Tail(scores), Head(scores))
        passed == Len(Filter(LAMBDA sc : RatGt(sc, Num(PassingGrade)), scores))
        failed == Len(scores) - passed
        passRate == RatMul(RatDiv(Num(passed), Num(Len(scores))), Num(100))
        distribution ==
            Reduce(LAMBDA d, sc : [d EXCEPT ![Bucket(sc)] = @ + 1],
                   scores, <<0, 0, 0, 0, 0>>)
        approvedStudents ==
            SortBy(ScoreDescending,
                   Filter(LAMBDA e : RatGe(e.score, Num(PassingGrade)), studentScores))
        failedStudents ==
            SortBy(ScoreDescending,
                   Filter(LAMBDA e : RatLt(e.score, Num(PassingGrade)), studentScores))
    IN  [average |-> ToFixed2(average), highest |-> ToFixed2(highest),
         lowest |-> ToFixed2(lowest), passed |-> passed, failed |-> failed,
         passRate |-> ToFixed2(passRate), distribution |-> distribution,
         approvedStudents |-> approvedStudents, failedStudents |-> failedStudents]

calculateStats(studentScores) ==
    IF Len(studentScores) = 0 THEN EmptyStats
    ELSE
    LET scores == [i \in 1..Len(studentScores) |-> studentScores[i].score]
        average == RatDiv(Reduce(LAMBDA a, b : RatAdd(a, b), scores, Zero),
                          Num(Len(scores)))
        highest == Reduce(LAMBDA a, b : RatMax(a, b), Tail(scores), Head(scores))
        lowest == Reduce(LAMBDA a, b : RatMin(a, b), Tail(scores), Head(scores))
        passed == Len(Filter(LAMBDA sc : RatGe(sc, Num(PassingGrade)), scores))
        failed == Len(scores) - passed
        passRate == RatMul(RatDiv(Num(passed), Num(Len(scores))), Num(100))
        distribution ==
            Reduce(LAMBDA d, sc : [d EXCEPT ![Bucket(sc)] = @ + 1],
                   scores, <<0, 0, 0, 0, 0>>)
        approvedStudents ==
            SortBy(ScoreDescending,
                   Filter(LAMBDA e : RatGe(e.score, Num(PassingGrade)), studentScores))
        failedStudents ==
            SortBy(ScoreDescending,
                   Filter(LAMBDA e : RatLt(e.score, Num(PassingGrade)), studentScores))
    IN  [average |-> ToFixed2(average), highest |-> ToFixed2(highest),
         lowest |-> ToFixed2(lowest), passed |-> passed, failed |-> failed,
         passRate |-> ToFixed2(passRate), distribution |-> distribution,
         approvedStudents |-> approvedStudents, failedStudents |-> failedStudents]

\* allStats, finalGrades: evaluations.reduce over every evaluation of the subject
StatsFinalGrade(evals, gs, studentId) ==
    Reduce(LAMBDA total, ev : AddWeighted(gs, studentId, total, ev), evals, Zero)

\* allStats, cortes: the normalized score pushed for a corte that has evaluations
StatsCorteScore(evals, gs, studentId, corteNum) ==
    LET corteEvals == Filter(LAMBDA ev : ev.corte = corteNum, evals)
        corteTotal == Reduce(LAMBDA total, ev : AddWeighted(gs, studentId, total, ev),
                             corteEvals, Zero)
        totalPercentage == SumPercentage(corteEvals)
    IN  IF totalPercentage > 0
        THEN RatDiv(corteTotal, RatDiv(Num(totalPercentage), Num(100)))
        ELSE Zero

StatsCorteScores(studs, evals, gs, corteNum) ==
    IF Len(Filter(LAMBDA ev : ev.corte = corteNum, evals)) > 0
    THEN [i \in 1..Len(studs) |->
            [name |-> studs[i].name,
             score |-> StatsCorteScore(evals, gs, studs[i].id, corteNum)]]
    ELSE <<>>

allStats(studs, evals, gs) ==
    LET finalGrades ==
            [i \in 1..Len(studs) |->
                [name |-> studs[i].name,
                 score |-> StatsFinalGrade(evals, gs, studs[i].id)]]
        evaluationStats ==
            [id \in {evals[k].id : k \in 1..Len(evals)} |->
                calculateStats([i \in 1..Len(studs) |->
                    [name |-> studs[i].name,
                     score |-> Num(ScoreOrZero(getGrade(gs, studs[i].id, id)))]])]
    IN  [general |-> calculateStats(finalGrades),
         corte1 |-> calculateStats(StatsCorteScores(studs, evals, gs, 1)),
         corte2 |-> calculateStats(StatsCorteScores(studs, evals, gs, 2)),
         corte3 |-> calculateStats(StatsCorteScores(studs, evals, gs, 3)),
         evaluations |-> evaluationStats]

\* handleDownloadCSV: evaluations.sort((a,b) => a.corte - b.corte || a.name.localeCompare(b.name))
CorteThenNameBefore(a, b) ==
    a.corte < b.corte \/ (a.corte = b.corte /\ LocaleLess(a.name, b.name))

\* corteEvals[ev.corte - 1] of the export, taken from the sorted array
CsvCorteEvals(sortedEvals, corte) == Filter(LAMBDA ev : ev.corte = corte, sortedEvals)

\* corteTotal of one corte of one row
CsvCorteTotal(sortedEvals, gs, studentId, corte) ==
    Reduce(LAMBDA corteTotal, ev : AddWeighted(gs, studentId, corteTotal, ev),
           CsvCorteEvals(sortedEvals, corte), Zero)

\* finalGrade of one row: finalGrade += corteTotal for the cortes that have evaluations
CsvFinalGrade(sortedEvals, gs, studentId) ==
    Reduce(LAMBDA finalGrade, corte :
               IF Len(CsvCorteEvals(sortedEvals, corte)) > 0
               THEN RatAdd(finalGrade, CsvCorteTotal(sortedEvals, gs, studentId, corte))
               ELSE finalGrade,
           <<1, 2, 3>>, Zero)

CsvRow(sortedEvals, gs, student) ==
    [studentId  |-> student.id,
     scores     |-> [i \in 1..Len(sortedEvals) |->
                        ToFixed2(Num(ScoreOrZero(getGrade(gs, student.id, sortedEvals[i].id))))],
     totalCorte |-> [c \in {k \in Cortes : Len(CsvCorteEvals(sortedEvals, k)) > 0} |->
                        ToFixed2(CsvCorteTotal(sortedEvals, gs, student.id, c))],
     finalGrade |-> ToFixed2(CsvFinalGrade(sortedEvals, gs, student.id))]

(***************************************************************************)
(* SubjectView e-mails                                                     *)
(***************************************************************************)
\* grade?.score ?? 'N/P'
ScoreOrNP(grade) ==
    IF grade = Null THEN "N/P"
    ELSE IF grade[1].score = Null THEN "N/P" ELSE ToString(grade[1].score[1])

\* handleEmailByCorte of the per-corte-cap build: the normalized grade of a student
EmailNormalizedGrade(evals, gs, studentId, corte) ==
    LET corteEvals == evaluationsByCorte(evals, corte)
        weightedSum == Reduce(LAMBDA total, ev : AddWeighted(gs, studentId, total, ev),
                              corteEvals, Zero)
        totalPercentageInCorte == SumPercentage(corteEvals)
    IN  IF totalPercentageInCorte > 0
        THEN RatDiv(weightedSum, RatDiv(Num(totalPercentageInCorte), Num(100)))
        ELSE Zero

\* handleEmailByCorte of the simple build: the weighted corte total of a student
EmailCorteTotal(evals, gs, studentId, corte) ==
    Reduce(LAMBDA total, ev : AddWeighted(gs, studentId, total, ev),
           evaluationsByCorte(evals, corte), Zero)

(***************************************************************************)
(* State of the subject page                                               *)
(***************************************************************************)
SubjectId == "subject-1"

\* a localStorage with none of the keys of the application
NoStorage == [legacy |-> [key \in {"students", "subjects", "evaluations", "grades",
                                   "enrollments"} |-> <<>>],
              snapshot |-> <<>>, migrated |-> FALSE]

EmptyDb == [students |-> <<>>, evaluations |-> <<>>, enrollments |-> <<>>, grades |-> <<>>]
EmptyForm == [name |-> <<>>, percentage |-> "", corte |-> "1"]
NoError == [kind |-> "none", remaining |-> Zero]
NothingRendered == [kind |-> "none"]

(***************************************************************************)
(* The roll-up consumers as handlers over the props they receive           *)
(***************************************************************************)
ViewFrame == UNCHANGED <<variant, selectedSubjectId, manualEntryError, inflight,
                         localStorage, db, now,
                         isEvalModalOpen, editingEvaluation,
                         newEval, error, saved>>

\* GradeTable render
RenderGradeTable ==
    /\ Len(students) > 0
    /\ rendered' = [kind |-> "table",
                    rows |-> GradeTableRows(variant, students, evaluations, grades)]
    /\ UNCHANGED <<students, evaluations, grades>>
    /\ ViewFrame

\* ReportsView render: the allStats memo
OpenReport ==
    /\ rendered' = [kind |-> "report",
                    stats |-> allStats(students, evaluations, grades)]
    /\ UNCHANGED <<students, evaluations, grades>>
    /\ ViewFrame

\* ReportsView.handleDownloadCSV; both sorts are in place
DownloadCSV ==
    LET sortedEvals == SortBy(CorteThenNameBefore, evaluations)
        sortedStuds == SortBy(NameBefore, students)
    IN  /\ evaluations' = sortedEvals
        /\ students' = sortedStuds
        /\ rendered' = [kind |-> "csv",
                        rows |-> [i \in 1..Len(sortedStuds) |->
                                     CsvRow(sortedEvals, grades, sortedStuds[i])]]
        /\ UNCHANGED grades
        /\ ViewFrame

\* SubjectView.handleEmailByEvaluation; students.sort is in place
EmailByEvaluation(evaluation) ==
    LET sortedStuds == SortBy(NameBefore, students)
    IN  /\ students' = sortedStuds
        /\ rendered' = [kind |-> "emailEvaluation",
                        evaluationId |-> evaluation.id,
                        lines |-> [i \in 1..Len(sortedStuds) |->
                                      [studentId |-> sortedStuds[i].id,
                                       score |-> ScoreOrNP(getGrade(grades, sortedStuds[i].id,
                                                                    evaluation.id))]]]
        /\ UNCHANGED <<evaluations, grades>>
        /\ ViewFrame

\* SubjectView.handleEmailByCorte; students.sort is in place
EmailByCorte(corte) ==
    LET sortedStuds == SortBy(NameBefore, students)
    IN  IF Len(evaluationsByCorte(evaluations, corte)) = 0
        THEN /\ rendered' = [kind |-> "alert"]
             /\ UNCHANGED <<students, evaluations, grades>>
             /\ ViewFrame
        ELSE /\ students' = sortedStuds
             /\ rendered' =
                  [kind |-> "emailCorte",
                   corte |-> corte,
                   lines |-> [i \in 1..Len(sortedStuds) |->
                       [studentId |-> sortedStuds[i].id,
                        grade |-> IF variant = "percorte"
                                  THEN ToFixed2(EmailNormalizedGrade(evaluations, grades,
                                                    sortedStuds[i].id, corte))
                                  ELSE ToFixed2(EmailCorteTotal(evaluations, grades,
                                                    sortedStuds[i].id, corte))]]]
             /\ UNCHANGED <<evaluations, grades>>
             /\ ViewFrame

(***************************************************************************)
(* Snapshots for the roll-ups: any evaluations, any grades                 *)
(***************************************************************************)
SnapshotPercentages == {0, 30, 70}
SnapshotScores == {Null, Some(15)}
SnapshotNames == <<<<"T">>, <<"Q">>, <<"T", "Q">>, <<"A">>, <<"B">>>>
Roster == << [id |-> "s1", name |-> <<"B">>, email |-> "s1@x"],
             [id |-> "s2", name |-> <<"A">>, email |-> "s2@x"] >>

SnapshotEvaluations(n, corteOf, pctOf) ==
    [i \in 1..n |-> [id |-> i, subjectId |-> SubjectId, corte |-> corteOf[i],
                     name |-> SnapshotNames[((i - 1) % 5) + 1],
                     percentage |-> pctOf[i]]]

\* the grade rows of one student, in evaluation order; the first student has
\* either a row per evaluation or no row at all, the second one scored 20
\* everywhere
SnapshotRows(studentId, n, present, scoreOf) ==
    LET all == [i \in 1..n |-> [studentId |-> studentId, evaluationId |-> i,
                                score |-> scoreOf[i]]]
    IN  Filter(LAMBDA g : g.evaluationId \in present, all)

InitSnapshot(build) ==
    /\ variant = build
    /\ selectedSubjectId = SubjectId
    /\ manualEntryError = ""
    /\ inflight = <<>>
    /\ localStorage = NoStorage
    /\ db = EmptyDb
    /\ now = 1
    /\ students = Roster
    /\ \E n \in 0..MaxSnapshotEvals :
         \E corteOf \in [1..n -> Cortes], pctOf \in [1..n -> SnapshotPercentages] :
           \E present \in {{}, 1..n}, scoreOf \in [1..n -> SnapshotScores] :
             /\ present = {} => \A i \in 1..n : scoreOf[i] = Null
             /\ evaluations = SnapshotEvaluations(n, corteOf, pctOf)
             /\ grades = SnapshotRows("s1", n, present, scoreOf)
                         \o SnapshotRows("s2", n, 1..n, [i \in 1..n |-> Some(20)])
    /\ isEvalModalOpen = FALSE
    /\ editingEvaluation = Null
    /\ newEval = EmptyForm
    /\ error = NoError
    /\ saved = Null
    /\ rendered = NothingRendered

NextAgg ==
    \/ RenderGradeTable
    \/ OpenReport
    \/ DownloadCSV
    \/ \E i \in 1..Len(evaluations) : EmailByEvaluation(evaluations[i])
    \/ \E corte \in Cortes : EmailByCorte(corte)

\* the per-corte-cap build: SubjectView with CORTE_PERCENTAGES, GradeTable with
\* calculateNormalizedCorteGrade
InitAgg == InitSnapshot("percorte")
SpecAgg == InitAgg /\ [][NextAgg]_vars

\* the simple build: SubjectView with handleAddEvaluation, GradeTable with
\* calculateCorteTotal
InitAggSimple == InitSnapshot("simple")
SpecAggSimple == InitAggSimple /\ [][NextAgg]_vars

(***************************************************************************)
(* Roll-up properties, stated from the data and not from the folds         *)
(***************************************************************************)
RECURSIVE SetSum(_, _)
SetSum(F(_), S) ==
    IF S = {} THEN 0
    ELSE LET x == CHOOSE y \in S : TRUE
         IN  F(x) + SetSum(F, S \ {x})

StudentIds == {students[k].id : k \in 1..Len(students)}
EvalIndexes == 1..Len(evaluations)
EvalsOfCorte(corte) == {i \in EvalIndexes : evaluations[i].corte = corte}

\* the recorded score of a student in an evaluation; no row and a null row count 0
RecordedScore(studentId, evaluationId) ==
    LET rows == {j \in 1..Len(grades) : /\ grades[j].studentId = studentId
                                        /\ grades[j].evaluationId = evaluationId
                                        /\ grades[j].score # Null}
    IN  IF rows = {} THEN 0 ELSE grades[CHOOSE j \in rows : TRUE].score[1]

\* sum of score x percentage over a set of evaluations, in hundredths of a point
Hundredths(studentId, S) ==
    SetSum(LAMBDA i : RecordedScore(studentId, evaluations[i].id) * evaluations[i].percentage, S)

PercentageOf(S) == SetSum(LAMBDA i : evaluations[i].percentage, S)

\* C1: the final grade of the grade table (corte 1 + corte 2 + corte 3), of the
\* statistics view and of the CSV export all equal the sum over every
\* evaluation of score x percentage / 100, a missing or null score counting 0.
C1_FinalGradeIsSumOverAllEvaluations ==
    /\ \A sid \in StudentIds :
         LET expected == Rat(Hundredths(sid, EvalIndexes), 100)
         IN  /\ GradeTableFinalGrade(evaluations, grades, sid) = expected
             /\ StatsFinalGrade(evaluations, grades, sid) = expected
             /\ CsvFinalGrade(SortBy(CorteThenNameBefore, evaluations), grades, sid) = expected
    /\ rendered.kind \in {"table", "csv"} =>
         \A r \in 1..Len(rendered.rows) :
            rendered.rows[r].finalGrade =
                ToFixed2(Rat(Hundredths(rendered.rows[r].studentId, EvalIndexes), 100))

\* a table was rendered for a student who scored in two different cortes
C1_Witness ==
    /\ rendered.kind = "table"
    /\ \E sid \in StudentIds : \E c1, c2 \in Cortes :
         /\ c1 # c2
         /\ Hundredths(sid, EvalsOfCorte(c1)) > 0
         /\ Hundredths(sid, EvalsOfCorte(c2)) > 0

\* C2: the weighted corte sum is the sum of score x percentage / 100 over
\* exactly the evaluations of that corte, with the student's own scores, a
\* missing or null score counting 0; a corte without evaluations yields 0.
C2_WeightedCorteSumOverOwnCorte ==
    \A sid \in StudentIds : \A corte \in Cortes :
        LET expected == Rat(Hundredths(sid, EvalsOfCorte(corte)), 100)
        IN  /\ calculateWeightedCorteSum(evaluations, grades, sid, corte) = expected
            /\ calculateCorteTotal(evaluations, grades, sid, corte) = expected
            /\ EvalsOfCorte(corte) = {} =>
                 calculateWeightedCorteSum(evaluations, grades, sid, corte) = Zero

\* a student with a null or missing score in a weighted evaluation of a corte,
\* a scored evaluation in another corte, next to a student who scored everywhere
C2_Witness ==
    /\ rendered.kind = "table"
    /\ \E sid \in StudentIds, other \in StudentIds : \E i, j \in EvalIndexes :
         /\ sid # other
         /\ evaluations[i].corte # evaluations[j].corte
         /\ evaluations[i].percentage > 0
         /\ getGrade(grades, sid, evaluations[i].id) # Null
         /\ getGrade(grades, sid, evaluations[i].id)[1].score = Null
         /\ RecordedScore(other, evaluations[i].id) > 0
         /\ Hundredths(sid, {j}) > 0

\* C3: the normalized corte grade is weightedCorteSum / (P / 100) for P > 0, P
\* the sum of the corte's percentages, and exactly 0 for a corte without
\* evaluations or with P = 0; the grade table, the corte e-mail and the corte
\* statistics compute that same value.
C3_NormalizedCorteGrade ==
    /\ \A sid \in StudentIds : \A corte \in Cortes :
         LET P == PercentageOf(EvalsOfCorte(corte))
             expected == IF P > 0
                         THEN Rat(Hundredths(sid, EvalsOfCorte(corte)), P)
                         ELSE Zero
         IN  /\ calculateNormalizedCorteGrade(evaluations, grades, sid, corte) = expected
             /\ EvalsOfCorte(corte) # {} =>
                  /\ EmailNormalizedGrade(evaluations, grades, sid, corte) = expected
                  /\ StatsCorteScore(evaluations, grades, sid, corte) = expected
    /\ rendered.kind = "emailCorte" =>
         \A r \in 1..Len(rendered.lines) :
            rendered.lines[r].grade =
                ToFixed2(calculateNormalizedCorteGrade(evaluations, grades,
                             rendered.lines[r].studentId, rendered.corte))

\* the e-mail of a partially weighted corte was composed while another corte
\* holds evaluations whose percentages sum to 0
C3_Witness ==
    /\ rendered.kind = "emailCorte"
    /\ PercentageOf(EvalsOfCorte(rendered.corte)) \in 1..99
    /\ \E sid \in StudentIds : Hundredths(sid, EvalsOfCorte(rendered.corte)) > 0
    /\ \E corte \in Cortes :
         EvalsOfCorte(corte) # {} /\ PercentageOf(EvalsOfCorte(corte)) = 0

(***************************************************************************)
(* The SQL store                                                           *)
(***************************************************************************)
IsEnrolled(d, studentId, subjectId) ==
    \E k \in 1..Len(d.enrollments) :
        d.enrollments[k].studentId = studentId /\ d.enrollments[k].subjectId = subjectId

\* SELECT s.* FROM students s JOIN enrollments e ON s.id = e.studentId WHERE e.subjectId = ?
dbGetEnrolledStudentsForSubject(d, subjectId) ==
    Filter(LAMBDA st : IsEnrolled(d, st.id, subjectId), d.students)

\* SELECT * FROM evaluations WHERE subjectId = ?
dbGetEvaluationsForSubject(d, subjectId) ==
    Filter(LAMBDA ev : ev.subjectId = subjectId, d.evaluations)

\* SELECT g.* FROM grades g JOIN evaluations e ON g.evaluationId = e.id WHERE e.subjectId = ?
dbGetGradesForSubject(d, subjectId) ==
    Filter(LAMBDA g : \E k \in 1..Len(d.evaluations) :
                         /\ d.evaluations[k].id = g.evaluationId
                         /\ d.evaluations[k].subjectId = subjectId,
           d.grades)

\* INSERT INTO evaluations, then a null grade row for every enrolled student
dbAddEvaluation(d, evaluationData, subjectId, id) ==
    LET added == [id |-> id, subjectId |-> subjectId, corte |-> evaluationData.corte,
                  name |-> evaluationData.name, percentage |-> evaluationData.percentage]
        withEval == [d EXCEPT !.evaluations = Append(@, added)]
        enrolledStudents == dbGetEnrolledStudentsForSubject(withEval, subjectId)
    IN  [withEval EXCEPT !.grades =
            @ \o [k \in 1..Len(enrolledStudents) |->
                     [studentId |-> enrolledStudents[k].id, evaluationId |-> id,
                      score |-> Null]]]

\* DELETE FROM grades WHERE evaluationId = ?; DELETE FROM evaluations WHERE id = ?
dbDeleteEvaluation(d, evaluationId) ==
    [d EXCEPT !.grades = Filter(LAMBDA g : g.evaluationId # evaluationId, @),
              !.evaluations = Filter(LAMBDA ev : ev.id # evaluationId, @)]

\* the row of the evaluation takes the new name, percentage and corte
dbUpdateEvaluation(d, evaluation) ==
    [d EXCEPT !.evaluations =
        [k \in 1..Len(@) |-> IF @[k].id = evaluation.id
                             THEN [@[k] EXCEPT !.name = evaluation.name,
                                               !.percentage = evaluation.percentage,
                                               !.corte = evaluation.corte]
                             ELSE @[k]]]

(***************************************************************************)
(* The evaluation form of SubjectView                                      *)
(***************************************************************************)
\* caps that add up to more than the whole subject
CORTE_PERCENTAGES_EachForty == <<40, 40, 40>>

\* the caps with the large one on the first corte
CORTE_PERCENTAGES_LargeFirst == <<40, 30, 30>>

CORTE_PERCENTAGES == <<30, 30, 40>>

\* the numbers whose decimal text the model can read back
Numerals == -5..110
NumeralOf == [t \in {ToString(n) : n \in Numerals} |->
                 CHOOSE n \in Numerals : ToString(n) = t]
NaN == <<>>

\* parseFloat of the text of a number input: NaN for anything but a numeral
parseFloat(text) == IF text \in DOMAIN NumeralOf THEN Some(NumeralOf[text]) ELSE NaN

\* parseInt(text, 10) of the value of the corte select
parseInt(text) == NumeralOf[text]

\* String(number)
String(n) == ToString(n)

\* useMemo: evaluations.filter(ev => ev.subjectId === subject.id)
subjectEvaluations(evals) == Filter(LAMBDA ev : ev.subjectId = SubjectId, evals)

\* useMemo: subjectEvaluations.reduce((acc, ev) => acc + ev.percentage, 0)
totalPercentage(evals) == SumPercentage(subjectEvaluations(evals))

Accepted == [kind |-> "ok", remaining |-> Zero]
Rejected(kind, remaining) == [kind |-> kind, remaining |-> ToFixed2(Num(remaining))]

\* an exclusion that drops every evaluation of the corte while editing
percentageForThisCorte_SkipsAllWhenEditing(evals, editing, corte) ==
    Reduce(LAMBDA acc, ev : IF editing # Null THEN acc ELSE acc + ev.percentage,
           Filter(LAMBDA ev : ev.corte = corte, subjectEvaluations(evals)), 0)

\* no exclusion: the evaluation being edited counts against its own budget
percentageForThisCorte_CountsEdited(evals, editing, corte) ==
    Reduce(LAMBDA acc, ev : acc + ev.percentage,
           Filter(LAMBDA ev : ev.corte = corte, subjectEvaluations(evals)), 0)

\* percentageForThisCorte: the corte's percentages without the evaluation being edited
percentageForThisCorte(evals, editing, corte) ==
    Reduce(LAMBDA acc, ev : IF editing # Null /\ editing[1].id = ev.id
                            THEN acc
                            ELSE acc + ev.percentage,
           Filter(LAMBDA ev : ev.corte = corte, subjectEvaluations(evals)), 0)

\* totalPercentage - (editingEvaluation ? editingEvaluation.percentage : 0)
currentTotalWithoutEdited(evals, editing) ==
    totalPercentage(evals) - (IF editing # Null THEN editing[1].percentage ELSE 0)

\* the checks of handleSaveEvaluation (per-corte-cap build), in their order
ValidateSave(form, evals, editing) ==
    LET percentage == parseFloat(form.percentage)
        corte == parseInt(form.corte)
        forCorte == percentageForThisCorte(evals, editing, corte)
        maxPercentageForCorte == CORTE_PERCENTAGES[corte]
        withoutEdited == currentTotalWithoutEdited(evals, editing)
    IN  IF Trim(form.name) = <<>> \/ percentage = NaN
            THEN Rejected("missing", 0)
        ELSE IF percentage[1] <= 0
            THEN Rejected("invalid", 0)
        ELSE IF forCorte + percentage[1] > maxPercentageForCorte
            THEN Rejected("corte", maxPercentageForCorte - forCorte)
        ELSE IF withoutEdited + percentage[1] > 100
            THEN Rejected("total", 100 - withoutEdited)
        ELSE Accepted

\* handleAddEvaluation holding the total to 200
ValidateAdd_TotalLimit200(form, evals) ==
    LET percentage == parseFloat(form.percentage)
    IN  IF Trim(form.name) = <<>> \/ percentage = NaN
            THEN Rejected("missing", 0)
        ELSE IF percentage[1] <= 0 \/ percentage[1] > 100
            THEN Rejected("invalid", 0)
        ELSE IF totalPercentage(evals) + percentage[1] > 200
            THEN Rejected("total", 200 - totalPercentage(evals))
        ELSE Accepted

\* handleAddEvaluation without its total check
ValidateAdd_NoTotalCheck(form, evals) ==
    LET percentage == parseFloat(form.percentage)
    IN  IF Trim(form.name) = <<>> \/ percentage = NaN
            THEN Rejected("missing", 0)
        ELSE IF percentage[1] <= 0 \/ percentage[1] > 100
            THEN Rejected("invalid", 0)
        ELSE Accepted

\* handleAddEvaluation reporting what would be left after the rejected add
ValidateAdd_ReportsAfterAdding(form, evals) ==
    LET percentage == parseFloat(form.percentage)
    IN  IF Trim(form.name) = <<>> \/ percentage = NaN
            THEN Rejected("missing", 0)
        ELSE IF percentage[1] <= 0 \/ percentage[1] > 100
            THEN Rejected("invalid", 0)
        ELSE IF totalPercentage(evals) + percentage[1] > 100
            THEN Rejected("total", 100 - totalPercentage(evals) - percentage[1])
        ELSE Accepted

\* handleAddEvaluation with the total check ahead of the range check
ValidateAdd_TotalBeforeRange(form, evals) ==
    LET percentage == parseFloat(form.percentage)
    IN  IF Trim(form.name) = <<>> \/ percentage = NaN
            THEN Rejected("missing", 0)
        ELSE IF totalPercentage(evals) + percentage[1] > 100
            THEN Rejected("total", 100 - totalPercentage(evals))
        ELSE IF percentage[1] <= 0 \/ percentage[1] > 100
            THEN Rejected("invalid", 0)
        ELSE Accepted

\* the checks of handleAddEvaluation (simple build), in their order
ValidateAdd(form, evals) ==
    LET percentage == parseFloat(form.percentage)
    IN  IF Trim(form.name) = <<>> \/ percentage = NaN
            THEN Rejected("missing", 0)
        ELSE IF percentage[1] <= 0 \/ percentage[1] > 100
            THEN Rejected("invalid", 0)
        ELSE IF totalPercentage(evals) + percentage[1] > 100
            THEN Rejected("total", 100 - totalPercentage(evals))
        ELSE Accepted

\* a form whose corte select is left on its default
EditForm_CorteNotFilled(evaluation) ==
    [name |-> evaluation.name, percentage |-> String(evaluation.percentage),
     corte |-> "1"]

\* what the form holds once handleOpenEditEvalModal has filled it
EditForm(evaluation) ==
    [name |-> evaluation.name, percentage |-> String(evaluation.percentage),
     corte |-> String(evaluation.corte)]

\* the object handed to onAddEvaluation / merged into the edited evaluation
FormData(form) ==
    [name |-> form.name, percentage |-> parseFloat(form.percentage)[1],
     corte |-> parseInt(form.corte)]

(***************************************************************************)
(* App handlers: write to the store, then reload what the views show       *)
(***************************************************************************)
\* App.handleAddEvaluation
AppAddEvaluation(evaluationData) ==
    LET written == dbAddEvaluation(db, evaluationData, selectedSubjectId, now)
    IN  /\ db' = written
        /\ now' = now + 1
        /\ evaluations' = dbGetEvaluationsForSubject(written, selectedSubjectId)
        /\ grades' = dbGetGradesForSubject(written, selectedSubjectId)
        /\ UNCHANGED students

\* the handler behind onUpdateEvaluation
AppUpdateEvaluation(evaluation) ==
    LET written == dbUpdateEvaluation(db, evaluation)
    IN  /\ db' = written
        /\ evaluations' = dbGetEvaluationsForSubject(written, selectedSubjectId)
        /\ grades' = dbGetGradesForSubject(written, selectedSubjectId)
        /\ UNCHANGED <<now, students>>

\* App.handleDeleteEvaluation
AppDeleteEvaluation(evaluationId) ==
    LET written == dbDeleteEvaluation(db, evaluationId)
    IN  /\ db' = written
        /\ evaluations' = dbGetEvaluationsForSubject(written, selectedSubjectId)
        /\ grades' = dbGetGradesForSubject(written, selectedSubjectId)
        /\ UNCHANGED <<now, students>>

(***************************************************************************)
(* SubjectView handlers                                                    *)
(***************************************************************************)
TypedNames == {<<" ">>, <<"Q">>}
TypedPercentages == {"", "0", "20", "25", "35", "65", "105"}
TypedCortes == {"1", "2", "3"}
TypedForms == [name : TypedNames, percentage : TypedPercentages, corte : TypedCortes]

DataFrame == UNCHANGED <<db, now, students, evaluations, grades>>

\* per-corte-cap build: 'Nueva Evaluacion'
handleOpenAddEvalModal ==
    /\ variant = "percorte"
    /\ ~isEvalModalOpen
    /\ editingEvaluation' = Null
    /\ newEval' = EmptyForm
    /\ error' = NoError
    /\ isEvalModalOpen' = TRUE
    /\ saved' = Null
    /\ DataFrame
    /\ UNCHANGED <<variant, selectedSubjectId, manualEntryError, inflight, localStorage, rendered>>

\* per-corte-cap build: the pencil of an evaluation
handleOpenEditEvalModal(evaluation) ==
    /\ variant = "percorte"
    /\ ~isEvalModalOpen
    /\ editingEvaluation' = Some(evaluation)
    /\ newEval' = EditForm(evaluation)
    /\ error' = NoError
    /\ isEvalModalOpen' = TRUE
    /\ saved' = Null
    /\ DataFrame
    /\ UNCHANGED <<variant, selectedSubjectId, manualEntryError, inflight, localStorage, rendered>>

\* a close that leaves the edit target in place
handleCloseEvalModal_KeepsTarget ==
    /\ variant = "percorte"
    /\ isEvalModalOpen
    /\ isEvalModalOpen' = FALSE
    /\ error' = NoError
    /\ newEval' = EmptyForm
    /\ saved' = Null
    /\ DataFrame
    /\ UNCHANGED <<variant, selectedSubjectId, manualEntryError, inflight, localStorage, rendered,
                   editingEvaluation>>

\* per-corte-cap build: closing the modal
handleCloseEvalModal ==
    /\ variant = "percorte"
    /\ isEvalModalOpen
    /\ isEvalModalOpen' = FALSE
    /\ editingEvaluation' = Null
    /\ error' = NoError
    /\ newEval' = EmptyForm
    /\ saved' = Null
    /\ DataFrame
    /\ UNCHANGED <<variant, selectedSubjectId, manualEntryError, inflight, localStorage, rendered>>

\* a save that hands the evaluation to onAddEvaluation before looking at it
handleSaveEvaluation_CommitsFirst(typed) ==
    LET outcome == ValidateSave(typed, evaluations, editingEvaluation)
    IN  /\ variant = "percorte"
        /\ isEvalModalOpen
        /\ now <= MaxAdds
        /\ typed.percentage \in DOMAIN NumeralOf
        /\ AppAddEvaluation(FormData(typed))
        /\ newEval' = typed
        /\ error' = outcome
        /\ saved' = Null
        /\ UNCHANGED <<isEvalModalOpen, editingEvaluation, variant, selectedSubjectId,
                     manualEntryError, inflight, localStorage, rendered>>

\* per-corte-cap build: 'Guardar Cambios' / 'Agregar' on the texts typed so far
handleSaveEvaluation(typed) ==
    LET outcome == ValidateSave(typed, evaluations, editingEvaluation)
    IN  /\ variant = "percorte"
        /\ isEvalModalOpen
        /\ IF outcome.kind # "ok"
           THEN /\ newEval' = typed
                /\ error' = outcome
                /\ saved' = Null
                /\ DataFrame
                /\ UNCHANGED <<isEvalModalOpen, editingEvaluation>>
           ELSE /\ IF editingEvaluation # Null
                   THEN LET updated == [editingEvaluation[1] EXCEPT
                                           !.name = FormData(typed).name,
                                           !.percentage = FormData(typed).percentage,
                                           !.corte = FormData(typed).corte]
                        IN  /\ AppUpdateEvaluation(updated)
                            /\ saved' = Some([callback |-> "onUpdateEvaluation",
                                              evaluation |-> updated,
                                              target |-> editingEvaluation])
                   ELSE /\ now <= MaxAdds
                        /\ AppAddEvaluation(FormData(typed))
                        /\ saved' = Some([callback |-> "onAddEvaluation",
                                          evaluation |-> FormData(typed),
                                          target |-> Null])
                \* handleCloseEvalModal()
                /\ isEvalModalOpen' = FALSE
                /\ editingEvaluation' = Null
                /\ error' = NoError
                /\ newEval' = EmptyForm
        /\ UNCHANGED <<variant, selectedSubjectId, manualEntryError, inflight,
                       localStorage, rendered>>

\* simple build: 'Nueva Evaluacion' is setIsEvalModalOpen(true)
OpenEvalModal ==
    /\ variant = "simple"
    /\ ~isEvalModalOpen
    /\ isEvalModalOpen' = TRUE
    /\ saved' = Null
    /\ DataFrame
    /\ UNCHANGED <<variant, selectedSubjectId, manualEntryError, inflight,
                   localStorage, editingEvaluation,
                   newEval, error, rendered>>

\* simple build: onClose is setIsEvalModalOpen(false)
CloseEvalModal ==
    /\ variant = "simple"
    /\ isEvalModalOpen
    /\ isEvalModalOpen' = FALSE
    /\ saved' = Null
    /\ DataFrame
    /\ UNCHANGED <<variant, selectedSubjectId, manualEntryError, inflight,
                   localStorage, editingEvaluation,
                   newEval, error, rendered>>

\* simple build: 'Agregar' on the texts typed so far
handleAddEvaluation(typed) ==
    LET outcome == ValidateAdd(typed, evaluations)
    IN  /\ variant = "simple"
        /\ isEvalModalOpen
        /\ IF outcome.kind # "ok"
           THEN /\ newEval' = typed
                /\ error' = outcome
                /\ saved' = Null
                /\ DataFrame
                /\ UNCHANGED isEvalModalOpen
           ELSE /\ now <= MaxAdds
                /\ AppAddEvaluation(FormData(typed))
                /\ saved' = Some([callback |-> "onAddEvaluation",
                                  evaluation |-> FormData(typed),
                                  target |-> Null])
                /\ newEval' = EmptyForm
                /\ error' = NoError
                /\ isEvalModalOpen' = FALSE
        /\ UNCHANGED <<variant, selectedSubjectId, manualEntryError, inflight, localStorage,
                       editingEvaluation, rendered>>

\* the trash can of an evaluation, confirmed; the page behind an open modal
\* takes no clicks
handleDeleteEvaluation(evaluation) ==
    /\ ~isEvalModalOpen
    /\ AppDeleteEvaluation(evaluation.id)
    /\ saved' = Null
    /\ UNCHANGED <<variant, selectedSubjectId, manualEntryError, inflight,
                   localStorage, isEvalModalOpen,
                   editingEvaluation, newEval, error, rendered>>

(***************************************************************************)
(* The subject page: a selected subject with its roster, no evaluations yet *)
(***************************************************************************)
EnrolledDb(roster) ==
    [EmptyDb EXCEPT !.students = roster,
                    !.enrollments = [k \in 1..Len(roster) |->
                                        [studentId |-> roster[k].id, subjectId |-> SubjectId]]]

Init ==
    /\ variant \in {"percorte", "simple"}
    /\ selectedSubjectId = SubjectId
    /\ manualEntryError = ""
    /\ inflight = <<>>
    /\ localStorage = NoStorage
    /\ db = EnrolledDb(Roster)
    /\ students = dbGetEnrolledStudentsForSubject(EnrolledDb(Roster), SubjectId)
    /\ now = 1
    /\ evaluations = <<>>
    /\ grades = <<>>
    /\ isEvalModalOpen = FALSE
    /\ editingEvaluation = Null
    /\ newEval = EmptyForm
    /\ error = NoError
    /\ saved = Null
    /\ rendered = NothingRendered

Next ==
    \/ handleOpenAddEvalModal
    \/ \E i \in 1..Len(evaluations) : handleOpenEditEvalModal(evaluations[i])
    \/ handleCloseEvalModal
    \/ \E typed \in TypedForms \cup {newEval} : handleSaveEvaluation(typed)
    \/ OpenEvalModal
    \/ CloseEvalModal
    \/ \E typed \in TypedForms \cup {newEval} : handleAddEvaluation(typed)
    \/ \E i \in 1..Len(evaluations) : handleDeleteEvaluation(evaluations[i])

Spec == Init /\ [][Next]_vars

(***************************************************************************)
(* Validator properties                                                    *)
(***************************************************************************)
StoredEvaluations == dbGetEvaluationsForSubject(db, SubjectId)
StoredIndexes == 1..Len(StoredEvaluations)
StoredPercentageOf(S) == SetSum(LAMBDA i : StoredEvaluations[i].percentage, S)
StoredOfCorte(corte) == {i \in StoredIndexes : StoredEvaluations[i].corte = corte}

\* the evaluations other than the one being edited (all of them for an add)
Others(editing) ==
    {i \in EvalIndexes : editing = Null \/ evaluations[i].id # editing[1].id}
OthersOfCorte(editing, corte) == Others(editing) \cap EvalsOfCorte(corte)

\* the targets the modal can be open for: an add, or the edit of a shown evaluation
Targets == {Null} \cup {Some(evaluations[i]) : i \in EvalIndexes}
AllForms == TypedForms \cup {EditForm(evaluations[i]) : i \in EvalIndexes} \cup {EmptyForm}

\* C4: the percentages of the subject's evaluations sum to at most 100 in
\* every state reached from an empty subject through accepted adds, accepted
\* edits and deletes, in both builds.
C4_TotalAtMost100 ==
    /\ StoredPercentageOf(StoredIndexes) <= 100
    /\ PercentageOf(EvalIndexes) <= 100

\* an accepted save has just filled the subject to exactly 100
C4_Witness ==
    /\ saved # Null
    /\ Len(StoredEvaluations) >= 2
    /\ StoredPercentageOf(StoredIndexes) = 100

\* C5: in the per-corte-cap build corte 1 holds at most 30, corte 2 at most 30
\* and corte 3 at most 40 after any accepted adds, accepted edits (also edits
\* that move an evaluation to another corte) and deletes.
C5_CorteCaps ==
    variant = "percorte" =>
        \A corte \in Cortes :
            /\ StoredPercentageOf(StoredOfCorte(corte)) <= CORTE_PERCENTAGES[corte]
            /\ PercentageOf(EvalsOfCorte(corte)) <= CORTE_PERCENTAGES[corte]

\* an accepted edit has just moved an evaluation into a corte that is now full
C5_Witness ==
    /\ variant = "percorte"
    /\ saved # Null
    /\ saved[1].callback = "onUpdateEvaluation"
    /\ saved[1].target[1].corte # saved[1].evaluation.corte
    /\ Cardinality(StoredOfCorte(saved[1].evaluation.corte)) >= 2
    /\ StoredPercentageOf(StoredOfCorte(saved[1].evaluation.corte))
           = CORTE_PERCENTAGES[saved[1].evaluation.corte]

C7_Scenario ==
    /\ variant = "percorte"
    /\ isEvalModalOpen
    /\ editingEvaluation # Null
    /\ editingEvaluation[1].corte = 1
    /\ editingEvaluation[1].percentage = 20
    /\ \A i \in EvalsOfCorte(1) : evaluations[i].id = editingEvaluation[1].id

C7_Form(percentage) == [name |-> <<"Q">>, percentage |-> percentage, corte |-> "1"]

\* C7 as stated: editing the 20% evaluation of corte 1 to 25% is accepted and
\* editing it to 35% is rejected with a corte-budget error reporting 10%.
C7_Reports10 ==
    C7_Scenario =>
        /\ ValidateSave(C7_Form("25"), evaluations, editingEvaluation).kind = "ok"
        /\ ValidateSave(C7_Form("35"), evaluations, editingEvaluation) = Rejected("corte", 10)
        /\ (error.kind = "corte" /\ newEval = C7_Form("35")) => error = Rejected("corte", 10)

\* C7 amended: editing the 20% evaluation of corte 1 to 25% is accepted and
\* editing it to 35% is rejected with a corte-budget error reporting 30%, the
\* cap less the other evaluations of the corte.
C7_Reports30 ==
    C7_Scenario =>
        /\ ValidateSave(C7_Form("25"), evaluations, editingEvaluation).kind = "ok"
        /\ ValidateSave(C7_Form("35"), evaluations, editingEvaluation) = Rejected("corte", 30)
        /\ (error.kind = "corte" /\ newEval = C7_Form("35")) => error = Rejected("corte", 30)

\* the edit to 35% has just been rejected
C7_Witness ==
    /\ C7_Scenario
    /\ newEval = C7_Form("35")
    /\ error.kind = "corte"

\* C8: a corte-budget rejection reports the cap of the chosen corte less the
\* other evaluations of that corte, a total-budget rejection reports 100 less
\* the other evaluations of the subject (other: all but the one being edited),
\* and the reported number is never negative.
C8_ReportedRemaining ==
    /\ variant = "percorte" =>
         \A form \in AllForms : \A editing \in Targets :
            LET outcome == ValidateSave(form, evaluations, editing)
                corte == parseInt(form.corte)
            IN  /\ outcome.kind = "corte" =>
                     outcome.remaining = Num(CORTE_PERCENTAGES[corte]
                                             - PercentageOf(OthersOfCorte(editing, corte)))
                /\ outcome.kind = "total" =>
                     outcome.remaining = Num(100 - PercentageOf(Others(editing)))
                /\ RatGe(outcome.remaining, Zero)
    /\ variant = "simple" =>
         \A form \in AllForms :
            LET outcome == ValidateAdd(form, evaluations)
            IN  /\ outcome.kind = "total" =>
                     outcome.remaining = Num(100 - PercentageOf(EvalIndexes))
                /\ RatGe(outcome.remaining, Zero)
    /\ RatGe(error.remaining, Zero)

\* the simple build has just refused an add that the remaining total cannot take
C8_Witness ==
    /\ variant = "simple"
    /\ isEvalModalOpen
    /\ error.kind = "total"
    /\ error = ValidateAdd(newEval, evaluations)
    /\ RatGt(error.remaining, Zero)
    /\ RatLt(error.remaining, Num(100))

IsBlank(text) == \A k \in 1..Len(text) : text[k] = " "
IsNumeral(text) == text \in DOMAIN NumeralOf
ValueOf(text) == NumeralOf[text]
CorteOf(text) == NumeralOf[text]

FirstFailure(build, form, editing) ==
    IF IsBlank(form.name) \/ ~IsNumeral(form.percentage) THEN "missing"
    ELSE IF ValueOf(form.percentage) <= 0 THEN "invalid"
    ELSE IF build = "simple" /\ ValueOf(form.percentage) > 100 THEN "invalid"
    ELSE IF /\ build = "percorte"
            /\ PercentageOf(OthersOfCorte(editing, CorteOf(form.corte)))
                 + ValueOf(form.percentage) > CORTE_PERCENTAGES[CorteOf(form.corte)]
         THEN "corte"
    ELSE IF PercentageOf(Others(editing)) + ValueOf(form.percentage) > 100 THEN "total"
    ELSE "ok"

\* C10: a save ends with the first failing check in the order missing field,
\* invalid percentage, corte budget (per-corte-cap build), total budget; it is
\* accepted, and the add or update callback invoked, exactly when none fails.
C10_FirstFailingCheck ==
    /\ variant = "percorte" =>
         \A form \in AllForms : \A editing \in Targets :
            ValidateSave(form, evaluations, editing).kind
                = FirstFailure("percorte", form, editing)
    /\ variant = "simple" =>
         \A form \in AllForms :
            ValidateAdd(form, evaluations).kind = FirstFailure("simple", form, Null)
    /\ saved # Null => (error = NoError /\ ~isEvalModalOpen)
    /\ (isEvalModalOpen /\ error.kind # "none") => saved = Null

\* the simple build has just refused 105%, which fails the range check and
\* the total check, as an invalid percentage
C10_Witness ==
    /\ variant = "simple"
    /\ isEvalModalOpen
    /\ error.kind = "invalid"
    /\ newEval.percentage = "105"
    /\ ~IsBlank(newEval.name)

\* the error kinds a save can end with
ErrorKinds == {"missing", "invalid", "corte", "total"}

\* C11: a save that is rejected, for any of the four error kinds, invokes
\* neither onAddEvaluation nor onUpdateEvaluation: the stored and the shown
\* evaluations and grades are what they were before the attempt, the modal
\* stays open on the same target, and only the error (with the texts typed)
\* changes.
C11_RejectedSaveCommitsNothing ==
    [][ /\ (isEvalModalOpen /\ isEvalModalOpen' /\ error'.kind \in ErrorKinds) =>
            /\ db' = db
            /\ evaluations' = evaluations
            /\ grades' = grades
            /\ students' = students
            /\ now' = now
            /\ saved' = Null
            /\ editingEvaluation' = editingEvaluation
        /\ (isEvalModalOpen /\ (db' # db \/ evaluations' # evaluations \/ grades' # grades)) =>
            /\ saved' # Null
            /\ error' = NoError
            /\ ~isEvalModalOpen'
      ]_vars

\* a second evaluation that would push its corte over the cap has just been
\* refused next to the stored one
C11_Witness ==
    /\ variant = "percorte"
    /\ isEvalModalOpen
    /\ editingEvaluation = Null
    /\ error.kind = "corte"
    /\ saved = Null
    /\ Len(evaluations) = 1
    /\ StoredEvaluations = evaluations
    /\ Len(grades) = Len(students)

(***************************************************************************)
(* calculateStats on lists of scores, and the report of an empty roster    *)
(***************************************************************************)
MaxScores == 3

StatScores == {Num(0), Rat(39, 10), Num(4), Num(8), Rat(19, 2), Num(10),
               Num(11), Num(12), Num(16), Num(18), Num(20)}

\* either a list of { name, score } entries for calculateStats, or the props
\* of a ReportsView whose subject has no student enrolled
InitStats ==
    /\ variant = "percorte"
    /\ selectedSubjectId = SubjectId
    /\ manualEntryError = ""
    /\ inflight = <<>>
    /\ localStorage = NoStorage
    /\ db = EmptyDb
    /\ now = 1
    /\ \/ /\ students = Roster
          /\ evaluations = <<>>
          /\ \E n \in 0..MaxScores : \E scoreOf \in [1..n -> StatScores] :
               rendered = [kind |-> "scores",
                           studentScores |-> [i \in 1..n |->
                               [name |-> SnapshotNames[((i - 1) % 5) + 1],
                                score |-> scoreOf[i]]]]
       \/ /\ students = <<>>
          /\ \E n \in 0..1 : \E corteOf \in [1..n -> Cortes] :
               evaluations = SnapshotEvaluations(n, corteOf, [i \in 1..n |-> 30])
          /\ rendered = NothingRendered
    /\ grades = <<>>
    /\ isEvalModalOpen = FALSE
    /\ editingEvaluation = Null
    /\ newEval = EmptyForm
    /\ error = NoError
    /\ saved = Null

\* calculateStats(studentScores)
CalculateStats ==
    /\ rendered.kind = "scores"
    /\ rendered' = [kind |-> "stats",
                    studentScores |-> rendered.studentScores,
                    stats |-> calculateStats(rendered.studentScores)]
    /\ UNCHANGED <<students, evaluations, grades>>
    /\ ViewFrame

NextStats ==
    \/ CalculateStats
    \/ OpenReport

SpecStats == InitStats /\ [][NextStats]_vars

\* the scores handed to calculateStats, by position
StatEntries == rendered.studentScores
StatIndexes == 1..Len(StatEntries)
\* a score in tenths of a point
Tenths(score) == (score.num * 10) \div score.den
PassingIndexes == {i \in StatIndexes : Tenths(StatEntries[i].score) >= 100}
FailingIndexes == {i \in StatIndexes : Tenths(StatEntries[i].score) < 100}

NoStats ==
    [average |-> Num(0), highest |-> Num(0), lowest |-> Num(0), passed |-> 0,
     failed |-> 0, passRate |-> Num(0), distribution |-> <<0, 0, 0, 0, 0>>,
     approvedStudents |-> <<>>, failedStudents |-> <<>>]

\* C12: calculateStats of no scores returns average, highest, lowest, passed,
\* failed and passRate 0, distribution [0,0,0,0,0] and two empty lists, with no
\* division by zero; the report shows the same for a corte without
\* evaluations and, when no student is enrolled, in every view.
C12_StatsOfNoScores ==
    /\ (rendered.kind = "stats" /\ StatEntries = <<>>) => rendered.stats = NoStats
    /\ rendered.kind = "report" =>
         /\ EvalsOfCorte(1) = {} => rendered.stats.corte1 = NoStats
         /\ EvalsOfCorte(2) = {} => rendered.stats.corte2 = NoStats
         /\ EvalsOfCorte(3) = {} => rendered.stats.corte3 = NoStats
         /\ students = <<>> =>
              /\ rendered.stats.general = NoStats
              /\ rendered.stats.corte1 = NoStats
              /\ rendered.stats.corte2 = NoStats
              /\ rendered.stats.corte3 = NoStats
              /\ \A id \in DOMAIN rendered.stats.evaluations :
                    rendered.stats.evaluations[id] = NoStats

\* the report of a subject with an evaluation and no student enrolled
C12_Witness ==
    /\ rendered.kind = "report"
    /\ students = <<>>
    /\ Len(evaluations) = 1
    /\ DOMAIN rendered.stats.evaluations # {}
\* the five ranges of the distribution, in tenths of a point
RangeOf(bucket) ==
    CASE bucket = 1 -> 0..39
      [] bucket = 2 -> 40..79
      [] bucket = 3 -> 80..119
      [] bucket = 4 -> 120..159
      [] bucket = 5 -> 160..200
IndexesInRange(bucket) ==
    {i \in StatIndexes : Tenths(StatEntries[i].score) \in RangeOf(bucket)}

\* C13: for scores in [0,20] calculateStats counts every score in exactly one
\* of the five buckets [0,4), [4,8), [8,12), [12,16), [16,20], so the five
\* counts sum to the number of scores.
C13_DistributionPartitionsScores ==
    rendered.kind = "stats" =>
        /\ \A i \in StatIndexes :
              Cardinality({b \in 1..5 : i \in IndexesInRange(b)}) = 1
        /\ \A b \in 1..5 :
              rendered.stats.distribution[b] = Cardinality(IndexesInRange(b))
        /\ SetSum(LAMBDA b : rendered.stats.distribution[b], 1..5) = Len(StatEntries)

\* scores on the limits 3.9, 4 and 16 have been counted
C13_Witness ==
    /\ rendered.kind = "stats"
    /\ Len(StatEntries) = 3
    /\ StatEntries[1].score = Rat(39, 10)
    /\ StatEntries[2].score = Num(4)
    /\ StatEntries[3].score = Num(16)
    /\ rendered.stats.distribution = <<1, 1, 0, 0, 1>>

\* 100 x passed / count to two decimals, halves up, in hundredths
PassRateHundredths(passed, count) == (passed * 20000 + count) \div (2 * count)

\* C14: for a non-empty list calculateStats returns passed = the number of
\* scores >= 10, failed = the number of scores < 10, passed + failed = the
\* number of scores, and passRate = 100 x passed / count to two decimals;
\* 18.0, 9.5, 11.0 give passed 2, failed 1, passRate 66.67.
C14_PassedFailedPassRate ==
    (rendered.kind = "stats" /\ StatEntries # <<>>) =>
        /\ rendered.stats.passed = Cardinality(PassingIndexes)
        /\ rendered.stats.failed = Cardinality(FailingIndexes)
        /\ rendered.stats.passed + rendered.stats.failed = Len(StatEntries)
        /\ rendered.stats.passRate.num * 100 =
              PassRateHundredths(rendered.stats.passed, Len(StatEntries))
                 * rendered.stats.passRate.den
        /\ rendered.stats.passRate.den > 0
        /\ (/\ Len(StatEntries) = 3
            /\ StatEntries[1].score = Num(18)
            /\ StatEntries[2].score = Rat(19, 2)
            /\ StatEntries[3].score = Num(11)) =>
               /\ rendered.stats.passed = 2
               /\ rendered.stats.failed = 1
               /\ rendered.stats.passRate = Rat(6667, 100)

\* the statistics of 18.0, 9.5, 11.0
C14_Witness ==
    /\ rendered.kind = "stats"
    /\ Len(StatEntries) = 3
    /\ StatEntries[1].score = Num(18)
    /\ StatEntries[2].score = Rat(19, 2)
    /\ StatEntries[3].score = Num(11)
    /\ rendered.stats.passRate = Rat(6667, 100)

\* how often an entry occurs in a list
Occurrences(entry, list) == Cardinality({k \in 1..Len(list) : list[k] = entry})
NonIncreasing(list) ==
    \A k \in 1..(Len(list) - 1) :
        Tenths(list[k].score) >= Tenths(list[k + 1].score)

\* C15: the approved list holds exactly the entries with score >= 10 and the
\* failed list exactly those with score < 10, every entry as often as in the
\* input, each list by non-increasing score, and their lengths are the passed
\* and failed counts.
C15_ApprovedAndFailedLists ==
    rendered.kind = "stats" =>
        LET approved == rendered.stats.approvedStudents
            failed == rendered.stats.failedStudents
        IN  /\ \A i \in StatIndexes :
                  /\ Occurrences(StatEntries[i], approved) =
                        (IF i \in PassingIndexes
                         THEN Occurrences(StatEntries[i], StatEntries) ELSE 0)
                  /\ Occurrences(StatEntries[i], failed) =
                        (IF i \in FailingIndexes
                         THEN Occurrences(StatEntries[i], StatEntries) ELSE 0)
            /\ Len(approved) + Len(failed) = Len(StatEntries)
            /\ NonIncreasing(approved)
            /\ NonIncreasing(failed)
            /\ Len(approved) = rendered.stats.passed
            /\ Len(failed) = rendered.stats.failed

\* two approved entries that came in rising order and one failed entry
C15_Witness ==
    /\ rendered.kind = "stats"
    /\ Len(StatEntries) = 3
    /\ StatEntries[1].score = Num(11)
    /\ StatEntries[2].score = Num(4)
    /\ StatEntries[3].score = Num(18)
    /\ Len(rendered.stats.approvedStudents) = 2
    /\ rendered.stats.approvedStudents[1] = StatEntries[3]
    /\ rendered.stats.failedStudents = <<StatEntries[2]>>

(***************************************************************************)
(* Agreement of the views on a snapshot                                    *)
(***************************************************************************)
StudentOf(studentId) == students[CHOOSE k \in 1..Len(students) : students[k].id = studentId]

\* C16: for every snapshot, student and corte with at least one evaluation,
\* the 'Total Corte' of the grade table, the 'Total Corte' written to the CSV
\* export and the value sent in the corte e-mail are the same number.
C16_TotalCorteSameInAllViews ==
    rendered.kind = "csv" =>
        \A i \in 1..Len(rendered.rows) :
            \A corte \in DOMAIN rendered.rows[i].totalCorte :
                LET studentId == rendered.rows[i].studentId
                    inTable == GradeTableRow(variant, evaluations, grades,
                                             StudentOf(studentId)).totalCorte[corte]
                    inEmail == ToFixed2(EmailNormalizedGrade(evaluations, grades,
                                                             studentId, corte))
                    inCsv == rendered.rows[i].totalCorte[corte]
                IN  inTable = inCsv /\ inCsv = inEmail
\* the grade rows whose score is null, and the snapshot with one of them scored 0
UngradedRows == {j \in 1..Len(grades) : grades[j].score = Null}
ScoredZero(j) == [grades EXCEPT ![j].score = Some(0)]

\* C17: an ungraded score is never shown as an explicit 0: between two
\* snapshots that differ only in one grade being null or 0, the e-mail of
\* that evaluation, the CSV export and the statistics of that evaluation
\* each differ.
C17_UngradedIsNotShownAsZero ==
    \A j \in UngradedRows :
        /\ (rendered.kind = "emailEvaluation"
              /\ rendered.evaluationId = grades[j].evaluationId) =>
               rendered.lines #
                   [i \in 1..Len(students) |->
                       [studentId |-> students[i].id,
                        score |-> ScoreOrNP(getGrade(ScoredZero(j), students[i].id,
                                                     rendered.evaluationId))]]
        /\ rendered.kind = "csv" =>
               rendered.rows #
                   [i \in 1..Len(students) |-> CsvRow(evaluations, ScoredZero(j), students[i])]
        /\ rendered.kind = "report" =>
               rendered.stats.evaluations[grades[j].evaluationId] #
                   allStats(students, evaluations, ScoredZero(j))
                       .evaluations[grades[j].evaluationId]

(***************************************************************************)
(* Grade entry: the score inputs of the grade table                        *)
(***************************************************************************)
\* UPDATE grades SET score = ? WHERE studentId = ? AND evaluationId = ?
dbUpdateGrade(d, studentId, evaluationId, score) ==
    [d EXCEPT !.grades =
        [k \in 1..Len(@) |->
            IF @[k].studentId = studentId /\ @[k].evaluationId = evaluationId
            THEN [@[k] EXCEPT !.score = score]
            ELSE @[k]]]

\* App.handleUpdateGrade: the store, then the row of currentGrades (pushed if
\* it is not there)
AppUpdateGrade(studentId, evaluationId, score) ==
    LET gradeIndex == {k \in 1..Len(grades) : /\ grades[k].studentId = studentId
                                              /\ grades[k].evaluationId = evaluationId}
    IN  /\ db' = dbUpdateGrade(db, studentId, evaluationId, score)
        /\ grades' = IF gradeIndex # {}
                     THEN [grades EXCEPT ![CHOOSE k \in gradeIndex :
                                              \A j \in gradeIndex : k <= j].score = score]
                     ELSE Append(grades, [studentId |-> studentId,
                                          evaluationId |-> evaluationId,
                                          score |-> score])
        /\ UNCHANGED <<now, students, evaluations>>

\* a score passed on as it was typed
InputScore_Unclamped(val) ==
    IF val = "" THEN Null ELSE Some(parseFloat(val)[1])

\* val === '' ? null : Math.max(0, Math.min(20, parseFloat(val)))
InputScore(val) ==
    IF val = "" THEN Null
    ELSE LET typed == parseFloat(val)[1]
             atMost20 == IF typed < 20 THEN typed ELSE 20
         IN  Some(IF atMost20 > 0 THEN atMost20 ELSE 0)

\* what the number inputs of the table can hold: nothing or a numeral
ScoreInputs == {"", "-3", "0", "12", "25"}

FormFrame == UNCHANGED <<variant, selectedSubjectId, manualEntryError, inflight,
                         localStorage, isEvalModalOpen,
                         editingEvaluation,
                         newEval, error, saved, rendered>>

\* onChange of the score input of a student and an evaluation of the table
ScoreInputChange(student, evaluation, val) ==
    /\ AppUpdateGrade(student.id, evaluation.id, InputScore(val))
    /\ FormFrame

\* onAddEvaluation with an evaluation the form let through
AddEvaluationForGrades ==
    /\ now <= MaxAdds
    /\ AppAddEvaluation([name |-> <<"Q">>, percentage |-> 30, corte |-> 1])
    /\ FormFrame

\* onDeleteEvaluation
DeleteEvaluationForGrades(evaluation) ==
    /\ AppDeleteEvaluation(evaluation.id)
    /\ FormFrame

InitGrades ==
    /\ variant = "percorte"
    /\ selectedSubjectId = SubjectId
    /\ manualEntryError = ""
    /\ inflight = <<>>
    /\ localStorage = NoStorage
    /\ db = EnrolledDb(Roster)
    /\ students = dbGetEnrolledStudentsForSubject(EnrolledDb(Roster), SubjectId)
    /\ now = 1
    /\ evaluations = <<>>
    /\ grades = <<>>
    /\ isEvalModalOpen = FALSE
    /\ editingEvaluation = Null
    /\ newEval = EmptyForm
    /\ error = NoError
    /\ saved = Null
    /\ rendered = NothingRendered

NextGrades ==
    \/ AddEvaluationForGrades
    \/ \E i \in 1..Len(evaluations) : DeleteEvaluationForGrades(evaluations[i])
    \/ \E k \in 1..Len(students), i \in 1..Len(evaluations), val \in ScoreInputs :
          ScoreInputChange(students[k], evaluations[i], val)

SpecGrades == InitGrades /\ [][NextGrades]_vars

\* a score is null or a number from 0 to 20
ScoreInRange(score) == score = Null \/ (score[1] >= 0 /\ score[1] <= 20)

\* C18: every score the grade table hands to onUpdateGrade is null (empty
\* input) or a number in [0,20] (below 0 becomes 0, above 20 becomes 20), so
\* after any grade edits every score in the store and in the shown grade
\* list is null or in [0,20].
C18_ScoresNullOrIn0To20 ==
    /\ \A val \in ScoreInputs :
          /\ ScoreInRange(InputScore(val))
          /\ val = "" <=> InputScore(val) = Null
          /\ (val # "" /\ NumeralOf[val] < 0) => InputScore(val) = Some(0)
          /\ (val # "" /\ NumeralOf[val] > 20) => InputScore(val) = Some(20)
          /\ (val # "" /\ NumeralOf[val] \in 0..20) => InputScore(val) = Some(NumeralOf[val])
    /\ \A k \in 1..Len(db.grades) : ScoreInRange(db.grades[k].score)
    /\ \A k \in 1..Len(grades) : ScoreInRange(grades[k].score)

\* typed -3, 25 and 12 have been stored as 0, 20 and 12, one input is empty
C18_Witness ==
    /\ Len(db.grades) = 4
    /\ db.grades = grades
    /\ {db.grades[k].score : k \in 1..4} = {Null, Some(0), Some(12), Some(20)}

(***************************************************************************)
(* Enrollment and the grade rows of the store, over several subjects       *)
(***************************************************************************)
Subjects == {"subject-1", "subject-2"}

\* INSERT OR REPLACE INTO students: the row of the id goes, the new row comes last
dbAddOrUpdateStudents(d, studentsToAdd) ==
    [d EXCEPT !.students =
        Reduce(LAMBDA rows, st : Append(Filter(LAMBDA row : row.id # st.id, rows), st),
               studentsToAdd, @)]

HasGradeRow(d, studentId, evaluationId) ==
    \E k \in 1..Len(d.grades) :
        d.grades[k].studentId = studentId /\ d.grades[k].evaluationId = evaluationId

\* an enrollment that writes no grade rows
dbEnrollStudents_NoGradeRows(d, studentsToEnroll, subjectId) ==
    LET withStudents == dbAddOrUpdateStudents(d, studentsToEnroll)
    IN  [withStudents EXCEPT !.enrollments =
            Reduce(LAMBDA rows, st :
                      IF IsEnrolled([withStudents EXCEPT !.enrollments = rows],
                                    st.id, subjectId)
                      THEN rows
                      ELSE Append(rows, [studentId |-> st.id, subjectId |-> subjectId]),
                   studentsToEnroll, @)]

\* dbEnrollStudents: the students, INSERT OR IGNORE of their enrollments, then
\* INSERT OR IGNORE of a null grade row per student and evaluation of the subject
dbEnrollStudents(d, studentsToEnroll, subjectId) ==
    LET withStudents == dbAddOrUpdateStudents(d, studentsToEnroll)
        withEnrollments ==
            [withStudents EXCEPT !.enrollments =
                Reduce(LAMBDA rows, st :
                          IF IsEnrolled([withStudents EXCEPT !.enrollments = rows],
                                        st.id, subjectId)
                          THEN rows
                          ELSE Append(rows, [studentId |-> st.id, subjectId |-> subjectId]),
                       studentsToEnroll, @)]
        subjectEvals == dbGetEvaluationsForSubject(withEnrollments, subjectId)
    IN  Reduce(LAMBDA acc, st :
                  Reduce(LAMBDA inner, ev :
                            IF HasGradeRow(inner, st.id, ev.id)
                            THEN inner
                            ELSE [inner EXCEPT !.grades =
                                     Append(@, [studentId |-> st.id,
                                                evaluationId |-> ev.id,
                                                score |-> Null])],
                         subjectEvals, acc),
               studentsToEnroll, withEnrollments)

\* an enrollment that does not look for the enrollment first
dbEnrollStudent_Unchecked(d, studentToEnroll, subjectId) ==
    [success |-> TRUE, db |-> dbEnrollStudents(d, <<studentToEnroll>>, subjectId)]

\* dbEnrollStudent: false and nothing written if the enrollment is there
dbEnrollStudent(d, studentToEnroll, subjectId) ==
    IF IsEnrolled(d, studentToEnroll.id, subjectId)
    THEN [success |-> FALSE, db |-> d]
    ELSE [success |-> TRUE, db |-> dbEnrollStudents(d, <<studentToEnroll>>, subjectId)]

StoreFrame == UNCHANGED <<variant, now, manualEntryError, inflight, localStorage, isEvalModalOpen,
                          editingEvaluation, newEval,
                          error, saved, rendered>>

\* a bulk enrollment that reloads the students and not the grades
handleEnrollStudents_GradesNotReloaded(studentsToEnroll) ==
    LET written == dbEnrollStudents(db, studentsToEnroll, selectedSubjectId)
    IN  /\ db' = written
        /\ students' = dbGetEnrolledStudentsForSubject(written, selectedSubjectId)
        /\ UNCHANGED <<selectedSubjectId, evaluations, grades>>
        /\ StoreFrame

\* App.handleEnrollStudents
handleEnrollStudents(studentsToEnroll) ==
    LET written == dbEnrollStudents(db, studentsToEnroll, selectedSubjectId)
    IN  /\ db' = written
        /\ students' = dbGetEnrolledStudentsForSubject(written, selectedSubjectId)
        /\ grades' = dbGetGradesForSubject(written, selectedSubjectId)
        /\ UNCHANGED <<selectedSubjectId, evaluations>>
        /\ StoreFrame

\* App.handleEnrollStudent
AppEnrollStudent(studentToEnroll) ==
    LET result == dbEnrollStudent(db, studentToEnroll, selectedSubjectId)
    IN  /\ db' = result.db
        /\ IF result.success
           THEN /\ students' = dbGetEnrolledStudentsForSubject(result.db, selectedSubjectId)
                /\ grades' = dbGetGradesForSubject(result.db, selectedSubjectId)
           ELSE UNCHANGED <<students, grades>>
        /\ UNCHANGED <<selectedSubjectId, evaluations>>

\* onEnrollStudent seen from the store: the entry form is left aside
handleEnrollStudent(studentToEnroll) ==
    /\ AppEnrollStudent(studentToEnroll)
    /\ StoreFrame

\* the effect on selectedSubjectId: loadSubjectData
loadSubjectData(subjectId) ==
    /\ subjectId # selectedSubjectId
    /\ selectedSubjectId' = subjectId
    /\ students' = dbGetEnrolledStudentsForSubject(db, subjectId)
    /\ evaluations' = dbGetEvaluationsForSubject(db, subjectId)
    /\ grades' = dbGetGradesForSubject(db, subjectId)
    /\ UNCHANGED db
    /\ StoreFrame

\* App.handleAddEvaluation on the open subject
StoreAddEvaluation ==
    /\ now <= MaxAdds
    /\ AppAddEvaluation([name |-> <<"Q">>, percentage |-> 30, corte |-> 1])
    /\ FormFrame

\* App.handleDeleteEvaluation on an evaluation of the open subject
StoreDeleteEvaluation(evaluation) ==
    /\ AppDeleteEvaluation(evaluation.id)
    /\ FormFrame

\* the lists a StudentImport can hand over
ImportedLists == {<<Roster[1], Roster[2]>>, <<Roster[2]>>}

InitStore ==
    /\ variant = "percorte"
    /\ selectedSubjectId = SubjectId
    /\ manualEntryError = ""
    /\ inflight = <<>>
    /\ localStorage = NoStorage
    /\ db = EmptyDb
    /\ now = 1
    /\ students = <<>>
    /\ evaluations = <<>>
    /\ grades = <<>>
    /\ isEvalModalOpen = FALSE
    /\ editingEvaluation = Null
    /\ newEval = EmptyForm
    /\ error = NoError
    /\ saved = Null
    /\ rendered = NothingRendered

NextStore ==
    \/ \E subjectId \in Subjects : loadSubjectData(subjectId)
    \/ \E k \in 1..Len(Roster) : handleEnrollStudent(Roster[k])
    \/ \E studentsToEnroll \in ImportedLists : handleEnrollStudents(studentsToEnroll)
    \/ StoreAddEvaluation
    \/ \E i \in 1..Len(evaluations) : StoreDeleteEvaluation(evaluations[i])

SpecStore == InitStore /\ [][NextStore]_vars

RosterIds == {Roster[k].id : k \in 1..Len(Roster)}
StoredEvaluationIds == {db.evaluations[k].id : k \in 1..Len(db.evaluations)}
SubjectOfEvaluation(evaluationId) ==
    db.evaluations[CHOOSE k \in 1..Len(db.evaluations) :
                      db.evaluations[k].id = evaluationId].subjectId
EnrolledPairs == {<<db.enrollments[k].studentId, db.enrollments[k].subjectId>> :
                     k \in 1..Len(db.enrollments)}
GradeKeys == {<<db.grades[k].studentId, db.grades[k].evaluationId>> :
                 k \in 1..Len(db.grades)}

\* a grade row for (student, evaluation) exactly when the evaluation exists
\* and the student is enrolled in its subject, and one row per pair
GradeRowsMatchEnrollment ==
    /\ GradeKeys = {<<studentId, evaluationId>> \in RosterIds \X StoredEvaluationIds :
                       <<studentId, SubjectOfEvaluation(evaluationId)>> \in EnrolledPairs}
    /\ Cardinality(GradeKeys) = Len(db.grades)

\* the rows a step adds to the grades have a null score
NewGradeRowsAreNull ==
    \A k \in 1..Len(db.grades') :
        <<db.grades'[k].studentId, db.grades'[k].evaluationId>> \notin GradeKeys =>
            db.grades'[k].score = Null

\* C19: after any single enrollments, bulk enrollments, evaluation additions
\* and evaluation deletions over several subjects the store holds a grade row
\* for (student, evaluation) if and only if the evaluation exists and the
\* student is enrolled in the evaluation's subject; the rows that an
\* enrollment or an added evaluation creates start with a null score.
C19_GradeRowsFollowEnrollment ==
    []GradeRowsMatchEnrollment /\ [][NewGradeRowsAreNull]_vars

\* both subjects have an evaluation, one student is in both and the other in
\* one: three grade rows
C19_Witness ==
    /\ {db.evaluations[k].subjectId : k \in 1..Len(db.evaluations)} = Subjects
    /\ Len(db.evaluations) = 2
    /\ Cardinality(EnrolledPairs) = 3
    /\ Len(db.grades) = 3

(***************************************************************************)
(* The scale of the final grade                                            *)
(***************************************************************************)
\* what a student can have in an evaluation: nothing yet, or a score in [0,20]
ScoreChoices == {Null, Some(7), Some(20)}

\* the grade rows of a student who has scoreOf[i] in the i-th evaluation shown
AssignedGrades(studentId, scoreOf) ==
    [i \in EvalIndexes |-> [studentId |-> studentId,
                            evaluationId |-> evaluations[i].id,
                            score |-> scoreOf[i]]]

\* C20: for every evaluation set reached through validated adds, edits and
\* deletes and every grade assignment whose scores lie in [0,20], the final
\* grade of a student lies in [0,20].
C20_FinalGradeIn0To20 ==
    \A scoreOf \in [EvalIndexes -> ScoreChoices] :
        LET finalGrade == GradeTableFinalGrade(evaluations,
                                               AssignedGrades("s1", scoreOf), "s1")
        IN  RatGe(finalGrade, Zero) /\ RatLe(finalGrade, Num(20))

\* the subject is filled to 100% and a student with 20 everywhere has 20
C20_Witness ==
    /\ Len(evaluations) >= 2
    /\ PercentageOf(EvalIndexes) = 100
    /\ GradeTableFinalGrade(evaluations,
                            AssignedGrades("s1", [i \in EvalIndexes |-> Some(20)]),
                            "s1") = Num(20)

(***************************************************************************)
(* What the roll-up consumers do to the collections they receive           *)
(***************************************************************************)
\* C21: rendering the grade table, composing the e-mail of an evaluation or
\* of a corte, opening the report and downloading the CSV leave the students,
\* evaluations and grades they received unchanged, the order of the elements
\* included.
C21_RollUpsLeaveCollectionsUnchanged ==
    [][ rendered' # rendered =>
           /\ students' = students
           /\ evaluations' = evaluations
           /\ grades' = grades ]_vars

(***************************************************************************)
(* The mutation handlers one at a time, each run to completion             *)
(***************************************************************************)
\* the inputs of the score cells in this specification
SyncScoreInputs == {"", "25"}

NextSync ==
    \/ \E subjectId \in Subjects : loadSubjectData(subjectId)
    \/ \E k \in 1..Len(Roster) : handleEnrollStudent(Roster[k])
    \/ \E studentsToEnroll \in ImportedLists : handleEnrollStudents(studentsToEnroll)
    \/ StoreAddEvaluation
    \/ \E i \in 1..Len(evaluations) : StoreDeleteEvaluation(evaluations[i])
    \/ \E k \in 1..Len(students), i \in 1..Len(evaluations), val \in SyncScoreInputs :
          ScoreInputChange(students[k], evaluations[i], val)

SpecSync == InitStore /\ [][NextSync]_vars

\* the same rows, each as often, whatever the order
RowCount(row, rows) == Cardinality({k \in 1..Len(rows) : rows[k] = row})
SameRows(a, b) ==
    /\ Len(a) = Len(b)
    /\ \A k \in 1..Len(a) : RowCount(a[k], a) = RowCount(a[k], b)

\* C22: when a mutation handler (add evaluation, delete evaluation, single
\* enroll, bulk enroll, update grade) has run to completion with no other
\* handler in flight, the currentStudents, currentEvaluations and
\* currentGrades handed to the views hold the rows the store returns for the
\* selected subject.
C22_ViewsHoldWhatTheStoreReturns ==
    /\ SameRows(students, dbGetEnrolledStudentsForSubject(db, selectedSubjectId))
    /\ SameRows(evaluations, dbGetEvaluationsForSubject(db, selectedSubjectId))
    /\ SameRows(grades, dbGetGradesForSubject(db, selectedSubjectId))

\* a score was entered in the open subject while the other subject has an
\* evaluation and grade rows of its own
C22_Witness ==
    /\ \E k \in 1..Len(grades) : grades[k].score = Some(20)
    /\ Len(grades) = 2
    /\ Len(db.grades) > Len(grades)
    /\ Len(db.evaluations) > Len(evaluations)

(***************************************************************************)
(* The normalized corte grade as a weighted average                        *)
(***************************************************************************)
ScoresInCorte(studentId, corte) ==
    {RecordedScore(studentId, evaluations[i].id) : i \in EvalsOfCorte(corte)}
LowestIn(S) == CHOOSE x \in S : \A y \in S : x <= y
HighestIn(S) == CHOOSE x \in S : \A y \in S : x >= y

\* C23: for a corte whose evaluations all have a positive percentage the
\* normalized corte grade is the percentage-weighted average of the student's
\* scores in the corte (missing as 0): at least their minimum, at most their
\* maximum, so within [0,20], whatever the percentages of the corte sum to.
C23_NormalizedGradeIsWeightedAverage ==
    \A studentId \in StudentIds : \A corte \in Cortes :
        (/\ EvalsOfCorte(corte) # {}
         /\ \A i \in EvalsOfCorte(corte) : evaluations[i].percentage > 0) =>
            \A grade \in {calculateNormalizedCorteGrade(evaluations, grades, studentId, corte),
                          StatsCorteScore(evaluations, grades, studentId, corte)} :
                /\ grade.den > 0
                /\ grade.num * PercentageOf(EvalsOfCorte(corte))
                      = Hundredths(studentId, EvalsOfCorte(corte)) * grade.den
                /\ grade.num >= LowestIn(ScoresInCorte(studentId, corte)) * grade.den
                /\ grade.num <= HighestIn(ScoresInCorte(studentId, corte)) * grade.den
                /\ grade.num >= 0
                /\ grade.num <= 20 * grade.den

\* a corte holding 30% and 30%, the first student scored 15 in one of the two
\* and nothing in the other: 7.5, between 0 and 15, shown in the table
C23_Witness ==
    /\ rendered.kind = "table"
    /\ \E corte \in Cortes :
         /\ Cardinality(EvalsOfCorte(corte)) = 2
         /\ PercentageOf(EvalsOfCorte(corte)) = 60
         /\ ScoresInCorte("s1", corte) = {0, 15}
         /\ calculateNormalizedCorteGrade(evaluations, grades, "s1", corte) = Rat(15, 2)

(***************************************************************************)
(* Enrolling through the entry form and through an imported list           *)
(***************************************************************************)
\* /^\S+@\S+\.\S+$/.test(email)
ValidEmail(email) ==
    /\ \A k \in 1..Len(email) : email[k] # " "
    /\ \E i \in 1..Len(email), j \in 1..Len(email) :
          /\ email[i] = "@"
          /\ email[j] = "."
          /\ 1 < i
          /\ i + 1 < j
          /\ j < Len(email)


\* what can be typed into the three fields of the form
EntryForms ==
    { [id |-> <<" ", "1">>, name |-> <<"B", " ">>, email |-> <<"b", "@", "x", ".", "y">>],
      [id |-> <<"1">>, name |-> <<"Z">>, email |-> <<"z", "@", "x", ".", "y">>],
      [id |-> <<"2">>, name |-> <<"A">>, email |-> <<"a", "@", "x", ".", "y">>],
      [id |-> <<"1">>, name |-> <<" ">>, email |-> <<"b", "@", "x", ".", "y">>],
      [id |-> <<"1">>, name |-> <<"B">>, email |-> <<"b", "@", "x">>] }

\* the students of a CSV file: the first one under another name than typed
EnrollImportedLists ==
    { << [id |-> <<"1">>, name |-> <<"Z">>, email |-> <<"z", "@", "x", ".", "y">>],
         [id |-> <<"2">>, name |-> <<"A">>, email |-> <<"a", "@", "x", ".", "y">>] >> }

EntryFrame == UNCHANGED <<variant, now, inflight,
                          localStorage, isEvalModalOpen, editingEvaluation, newEval,
                          error, saved, rendered>>

\* StudentManualEntry.handleSubmit with onAddStudent = onEnrollStudent
handleSubmit(newStudent) ==
    LET student == [id |-> Trim(newStudent.id), name |-> Trim(newStudent.name),
                    email |-> Trim(newStudent.email)]
    IN  /\ IF \/ Trim(newStudent.id) = <<>>
              \/ Trim(newStudent.name) = <<>>
              \/ Trim(newStudent.email) = <<>>
           THEN /\ manualEntryError' = "required"
                /\ UNCHANGED <<db, selectedSubjectId, students, evaluations, grades>>
           ELSE IF ~ValidEmail(newStudent.email)
           THEN /\ manualEntryError' = "email"
                /\ UNCHANGED <<db, selectedSubjectId, students, evaluations, grades>>
           ELSE /\ AppEnrollStudent(student)
                /\ manualEntryError' =
                      IF dbEnrollStudent(db, student, selectedSubjectId).success
                      THEN ""
                      ELSE "duplicate"
        /\ EntryFrame

\* the first subject is open, has one evaluation and nobody is enrolled yet
InitEnroll ==
    /\ variant = "percorte"
    /\ selectedSubjectId = SubjectId
    /\ manualEntryError = ""
    /\ inflight = <<>>
    /\ localStorage = NoStorage
    /\ db = dbAddEvaluation(EmptyDb, [name |-> <<"Q">>, percentage |-> 30, corte |-> 1],
                            SubjectId, 1)
    /\ now = 2
    /\ students = <<>>
    /\ evaluations = dbGetEvaluationsForSubject(db, SubjectId)
    /\ grades = <<>>
    /\ isEvalModalOpen = FALSE
    /\ editingEvaluation = Null
    /\ newEval = EmptyForm
    /\ error = NoError
    /\ saved = Null
    /\ rendered = NothingRendered

NextEnroll ==
    \/ \E subjectId \in Subjects : loadSubjectData(subjectId)
    \/ \E newStudent \in EntryForms : handleSubmit(newStudent)
    \/ \E studentsToEnroll \in EnrollImportedLists : handleEnrollStudents(studentsToEnroll)
    \/ \E k \in 1..Len(students), i \in 1..Len(evaluations), val \in SyncScoreInputs :
          ScoreInputChange(students[k], evaluations[i], val)

SpecEnroll == InitEnroll /\ [][NextEnroll]_vars

EnrollmentRows(d, studentId, subjectId) ==
    {k \in 1..Len(d.enrollments) : /\ d.enrollments[k].studentId = studentId
                                   /\ d.enrollments[k].subjectId = subjectId}
GradeRowsOf(d, studentId) ==
    {d.grades[k] : k \in {j \in 1..Len(d.grades) : d.grades[j].studentId = studentId}}

\* C24: enrolling a student who is already enrolled in the subject changes
\* neither the enrollments nor a recorded score: the single enrollment writes
\* nothing, returns false and the entry form reports the duplicate; the bulk
\* enrollment keeps the enrollment row and every score of the student.
C24_EnrollingTwiceKeepsEnrollmentAndScores ==
    [][ /\ \A newStudent \in EntryForms :
              (/\ handleSubmit(newStudent)
               /\ Trim(newStudent.name) # <<>>
               /\ ValidEmail(newStudent.email)
               /\ IsEnrolled(db, Trim(newStudent.id), selectedSubjectId)) =>
                  /\ db' = db
                  /\ students' = students
                  /\ grades' = grades
                  /\ manualEntryError' = "duplicate"
        /\ \A studentsToEnroll \in EnrollImportedLists :
              handleEnrollStudents(studentsToEnroll) =>
                 \A k \in 1..Len(studentsToEnroll) :
                    IsEnrolled(db, studentsToEnroll[k].id, selectedSubjectId) =>
                       /\ \A e \in 1..Len(db.enrollments) :
                             \E f \in 1..Len(db'.enrollments) :
                                db'.enrollments[f] = db.enrollments[e]
                       /\ Cardinality(EnrollmentRows(db', studentsToEnroll[k].id,
                                                     selectedSubjectId)) = 1
                       /\ GradeRowsOf(db', studentsToEnroll[k].id)
                             = GradeRowsOf(db, studentsToEnroll[k].id)
      ]_vars

\* the form has just refused a student who is enrolled and has a score of 20
C24_Witness ==
    /\ manualEntryError = "duplicate"
    /\ Len(students) = 2
    /\ \E k \in 1..Len(db.grades) : db.grades[k].score = Some(20)
    /\ grades = dbGetGradesForSubject(db, selectedSubjectId)

\* C25: a student record is changed only by an explicit update: enrolling,
\* singly or in bulk, a student whose identifier is already in the store
\* leaves the stored name and email of that student unchanged.
C25_EnrollingKeepsStudentRecord ==
    [][ \A k \in 1..Len(db.students) :
           \E j \in 1..Len(db.students') : db.students'[j] = db.students[k] ]_vars

ModalIsReset ==
    /\ editingEvaluation = Null
    /\ error = NoError
    /\ newEval = EmptyForm

StoredRows(d) == {d.evaluations[k] : k \in 1..Len(d.evaluations)}

\* C30: over any sequence of open-add, open-edit, close and save on the
\* evaluation modal, an accepted save calls onUpdateEvaluation, with the id and
\* subject of the evaluation, exactly when the modal was last opened for
\* editing that evaluation, and onAddEvaluation otherwise; after a close or an
\* accepted save the edit target is null, the error empty and the form reset,
\* and an add leaves every stored evaluation as it was.
C30_SavesGoToTheOpenedTarget ==
    /\ [](variant = "percorte" /\ ~isEvalModalOpen => ModalIsReset)
    /\ [][ variant = "percorte" =>
             /\ (isEvalModalOpen /\ isEvalModalOpen') =>
                   editingEvaluation' = editingEvaluation
             /\ (~isEvalModalOpen /\ isEvalModalOpen') =>
                   /\ saved' = Null
                   /\ db' = db
                   /\ \/ editingEvaluation' = Null /\ newEval' = EmptyForm
                      \/ \E i \in 1..Len(evaluations) :
                            /\ editingEvaluation' = Some(evaluations[i])
                            /\ newEval' = EditForm(evaluations[i])
             /\ (isEvalModalOpen /\ ~isEvalModalOpen' /\ saved' # Null) =>
                   IF editingEvaluation # Null
                   THEN /\ saved'[1].callback = "onUpdateEvaluation"
                        /\ saved'[1].target = editingEvaluation
                        /\ saved'[1].evaluation.id = editingEvaluation[1].id
                        /\ saved'[1].evaluation.subjectId = editingEvaluation[1].subjectId
                        /\ Len(db'.evaluations) = Len(db.evaluations)
                        /\ \A k \in 1..Len(db.evaluations) :
                              IF db.evaluations[k].id = editingEvaluation[1].id
                              THEN db'.evaluations[k] = saved'[1].evaluation
                              ELSE db'.evaluations[k] = db.evaluations[k]
                   ELSE /\ saved'[1].callback = "onAddEvaluation"
                        /\ StoredRows(db) \subseteq StoredRows(db')
                        /\ Len(db'.evaluations) = Len(db.evaluations) + 1
             /\ (isEvalModalOpen /\ ~isEvalModalOpen' /\ saved' = Null) => db' = db
         ]_vars

\* an edit opened on an evaluation has just been saved under the same id
C30_Witness ==
    /\ variant = "percorte"
    /\ ~isEvalModalOpen
    /\ ModalIsReset
    /\ saved # Null
    /\ saved[1].callback = "onUpdateEvaluation"
    /\ saved[1].evaluation.id = saved[1].target[1].id
    /\ saved[1].evaluation.percentage # saved[1].target[1].percentage
    /\ saved[1].evaluation \in StoredRows(db)
    /\ Len(db.evaluations) = 2

(***************************************************************************)
(* The handlers of App as asynchronous functions: a handler started by an  *)
(* event holds the subject it was started for, writes to the store at one  *)
(* await and sets the current collections after a later one; other         *)
(* handlers and events run in between.                                     *)
(***************************************************************************)
MaxInFlight == 2

\* what is typed into the modal where only the modal is followed
SaveForms ==
    { [name |-> <<"Q">>, percentage |-> "25", corte |-> "1"],
      [name |-> <<"Q">>, percentage |-> "35", corte |-> "1"],
      [name |-> <<"Q">>, percentage |-> "20", corte |-> "3"] }

Started(op, subjectId, pc, arg) == [op |-> op, subjectId |-> subjectId, pc |-> pc, arg |-> arg]
Without(seq, k) == SubSeq(seq, 1, k - 1) \o SubSeq(seq, k + 1, Len(seq))
Suspended(k, op, pc) ==
    /\ k \in 1..Len(inflight)
    /\ inflight[k].op = op
    /\ inflight[k].pc = pc

AsyncFrame == UNCHANGED <<variant, localStorage, saved, manualEntryError, rendered>>
ModalFrame == UNCHANGED <<isEvalModalOpen, editingEvaluation, newEval, error>>

\* setSelectedSubjectId, and the effect that starts loadSubjectData
SelectSubject(subjectId) ==
    /\ subjectId # selectedSubjectId
    /\ Len(inflight) < MaxInFlight
    /\ selectedSubjectId' = subjectId
    /\ inflight' = Append(inflight, Started("load", subjectId, "finish", <<>>))
    /\ UNCHANGED <<db, now, students, evaluations, grades>>
    /\ ModalFrame
    /\ AsyncFrame

\* loadSubjectData after its await: the three setCurrent calls
FinishLoad(k) ==
    /\ Suspended(k, "load", "finish")
    /\ students' = dbGetEnrolledStudentsForSubject(db, inflight[k].subjectId)
    /\ evaluations' = dbGetEvaluationsForSubject(db, inflight[k].subjectId)
    /\ grades' = dbGetGradesForSubject(db, inflight[k].subjectId)
    /\ inflight' = Without(inflight, k)
    /\ UNCHANGED <<db, now, selectedSubjectId>>
    /\ ModalFrame
    /\ AsyncFrame

\* handleSaveEvaluation of an add up to its await: the checks on the rendered
\* evaluations, then onAddEvaluation is called
StartSave(typed) ==
    LET outcome == ValidateSave(typed, evaluations, editingEvaluation)
    IN  /\ variant = "percorte"
        /\ isEvalModalOpen
        /\ editingEvaluation = Null
        /\ newEval' = typed
        /\ IF outcome.kind # "ok"
           THEN /\ error' = outcome
                /\ UNCHANGED inflight
           ELSE /\ Len(inflight) < MaxInFlight
                /\ now + Cardinality({k \in 1..Len(inflight) :
                                         Suspended(k, "add", "write")}) <= MaxAdds
                /\ inflight' = Append(inflight, Started("add", selectedSubjectId, "write",
                                                        FormData(typed)))
                /\ UNCHANGED error
        /\ UNCHANGED <<db, now, selectedSubjectId, students, evaluations, grades,
                       isEvalModalOpen, editingEvaluation>>
        /\ AsyncFrame

\* App.handleAddEvaluation: await dbAddEvaluation
WriteAddEvaluation(k) ==
    /\ Suspended(k, "add", "write")
    /\ db' = dbAddEvaluation(db, inflight[k].arg, inflight[k].subjectId, now)
    /\ now' = now + 1
    /\ inflight' = [inflight EXCEPT ![k].pc = "finish"]
    /\ UNCHANGED <<selectedSubjectId, students, evaluations, grades>>
    /\ ModalFrame
    /\ AsyncFrame

\* App.handleAddEvaluation after its reads, then handleCloseEvalModal
FinishAddEvaluation(k) ==
    /\ Suspended(k, "add", "finish")
    /\ evaluations' = dbGetEvaluationsForSubject(db, inflight[k].subjectId)
    /\ grades' = dbGetGradesForSubject(db, inflight[k].subjectId)
    /\ inflight' = Without(inflight, k)
    /\ isEvalModalOpen' = FALSE
    /\ editingEvaluation' = Null
    /\ error' = NoError
    /\ newEval' = EmptyForm
    /\ UNCHANGED <<db, now, selectedSubjectId, students>>
    /\ AsyncFrame

\* the bin of an evaluation: App.handleDeleteEvaluation is called
StartDeleteEvaluation(evaluation) ==
    /\ Len(inflight) < MaxInFlight
    /\ inflight' = Append(inflight, Started("delete", selectedSubjectId, "write", evaluation.id))
    /\ UNCHANGED <<db, now, selectedSubjectId, students, evaluations, grades>>
    /\ ModalFrame
    /\ AsyncFrame

\* App.handleDeleteEvaluation: await dbDeleteEvaluation
WriteDeleteEvaluation(k) ==
    /\ Suspended(k, "delete", "write")
    /\ db' = dbDeleteEvaluation(db, inflight[k].arg)
    /\ inflight' = [inflight EXCEPT ![k].pc = "finish"]
    /\ UNCHANGED <<now, selectedSubjectId, students, evaluations, grades>>
    /\ ModalFrame
    /\ AsyncFrame

\* App.handleDeleteEvaluation after its reads
FinishDeleteEvaluation(k) ==
    /\ Suspended(k, "delete", "finish")
    /\ evaluations' = dbGetEvaluationsForSubject(db, inflight[k].subjectId)
    /\ grades' = dbGetGradesForSubject(db, inflight[k].subjectId)
    /\ inflight' = Without(inflight, k)
    /\ UNCHANGED <<db, now, selectedSubjectId, students>>
    /\ ModalFrame
    /\ AsyncFrame

\* a loaded list: App.handleEnrollStudents is called
StartEnrollStudents(studentsToEnroll) ==
    /\ Len(inflight) < MaxInFlight
    /\ inflight' = Append(inflight, Started("enroll", selectedSubjectId, "write",
                                            studentsToEnroll))
    /\ UNCHANGED <<db, now, selectedSubjectId, students, evaluations, grades>>
    /\ ModalFrame
    /\ AsyncFrame

\* App.handleEnrollStudents: await dbEnrollStudents
WriteEnrollStudents(k) ==
    /\ Suspended(k, "enroll", "write")
    /\ db' = dbEnrollStudents(db, inflight[k].arg, inflight[k].subjectId)
    /\ inflight' = [inflight EXCEPT ![k].pc = "finish"]
    /\ UNCHANGED <<now, selectedSubjectId, students, evaluations, grades>>
    /\ ModalFrame
    /\ AsyncFrame

\* App.handleEnrollStudents after its reads
FinishEnrollStudents(k) ==
    /\ Suspended(k, "enroll", "finish")
    /\ students' = dbGetEnrolledStudentsForSubject(db, inflight[k].subjectId)
    /\ grades' = dbGetGradesForSubject(db, inflight[k].subjectId)
    /\ inflight' = Without(inflight, k)
    /\ UNCHANGED <<db, now, selectedSubjectId, evaluations>>
    /\ ModalFrame
    /\ AsyncFrame

\* a score cell of the table: App.handleUpdateGrade is called
StartUpdateGrade(student, evaluation, val) ==
    /\ Len(inflight) < MaxInFlight
    /\ inflight' = Append(inflight,
                          Started("grade", selectedSubjectId, "write",
                                  [studentId |-> student.id, evaluationId |-> evaluation.id,
                                   score |-> InputScore(val)]))
    /\ UNCHANGED <<db, now, selectedSubjectId, students, evaluations, grades>>
    /\ ModalFrame
    /\ AsyncFrame

\* App.handleUpdateGrade: await dbUpdateGrade
WriteUpdateGrade(k) ==
    /\ Suspended(k, "grade", "write")
    /\ db' = dbUpdateGrade(db, inflight[k].arg.studentId, inflight[k].arg.evaluationId,
                           inflight[k].arg.score)
    /\ inflight' = [inflight EXCEPT ![k].pc = "finish"]
    /\ UNCHANGED <<now, selectedSubjectId, students, evaluations, grades>>
    /\ ModalFrame
    /\ AsyncFrame

\* App.handleUpdateGrade: setCurrentGrades(prevGrades => ...)
FinishUpdateGrade(k) ==
    LET studentId == inflight[k].arg.studentId
        evaluationId == inflight[k].arg.evaluationId
        score == inflight[k].arg.score
        gradeIndex == {j \in 1..Len(grades) : /\ grades[j].studentId = studentId
                                              /\ grades[j].evaluationId = evaluationId}
    IN  /\ Suspended(k, "grade", "finish")
        /\ grades' = IF gradeIndex # {}
                     THEN [grades EXCEPT ![CHOOSE j \in gradeIndex :
                                              \A i \in gradeIndex : j <= i].score = score]
                     ELSE Append(grades, [studentId |-> studentId,
                                          evaluationId |-> evaluationId,
                                          score |-> score])
        /\ inflight' = Without(inflight, k)
        /\ UNCHANGED <<db, now, selectedSubjectId, students, evaluations>>
        /\ ModalFrame
        /\ AsyncFrame

\* the first subject is open with one student; no handler has started
InitAsync ==
    /\ variant = "percorte"
    /\ selectedSubjectId = SubjectId
    /\ manualEntryError = ""
    /\ inflight = <<>>
    /\ localStorage = NoStorage
    /\ db = EnrolledDb(<<Roster[1]>>)
    /\ now = 1
    /\ students = dbGetEnrolledStudentsForSubject(db, SubjectId)
    /\ evaluations = <<>>
    /\ grades = <<>>
    /\ isEvalModalOpen = FALSE
    /\ editingEvaluation = Null
    /\ newEval = EmptyForm
    /\ error = NoError
    /\ saved = Null
    /\ rendered = NothingRendered

\* the evaluation modal alone: opening it, saving, and the steps of the add
NextSave ==
    \/ handleOpenAddEvalModal
    \/ \E typed \in SaveForms : StartSave(typed)
    \/ \E k \in 1..Len(inflight) : WriteAddEvaluation(k)
    \/ \E k \in 1..Len(inflight) : FinishAddEvaluation(k)

SpecSave == InitAsync /\ [][NextSave]_vars

NextAsync ==
    \/ handleOpenAddEvalModal
    \/ StartSave([name |-> <<"Q">>, percentage |-> "25", corte |-> "1"])
    \/ \E subjectId \in Subjects : SelectSubject(subjectId)
    \/ \E i \in 1..Len(evaluations) : StartDeleteEvaluation(evaluations[i])
    \/ StartEnrollStudents(<<Roster[1]>>)
    \/ \E k \in 1..Len(students), i \in 1..Len(evaluations) :
          StartUpdateGrade(students[k], evaluations[i], "12")
    \/ \E k \in 1..Len(inflight) : FinishLoad(k)
    \/ \E k \in 1..Len(inflight) : WriteAddEvaluation(k)
    \/ \E k \in 1..Len(inflight) : FinishAddEvaluation(k)
    \/ \E k \in 1..Len(inflight) : WriteDeleteEvaluation(k)
    \/ \E k \in 1..Len(inflight) : FinishDeleteEvaluation(k)
    \/ \E k \in 1..Len(inflight) : WriteEnrollStudents(k)
    \/ \E k \in 1..Len(inflight) : FinishEnrollStudents(k)
    \/ \E k \in 1..Len(inflight) : WriteUpdateGrade(k)
    \/ \E k \in 1..Len(inflight) : FinishUpdateGrade(k)

SpecAsync == InitAsync /\ [][NextAsync]_vars

StoredOf(subjectId) ==
    {k \in 1..Len(db.evaluations) : db.evaluations[k].subjectId = subjectId}
StoredSum(S) == SetSum(LAMBDA k : db.evaluations[k].percentage, S)

\* C27: when the save handler is invoked a second time against the same
\* rendered evaluations (before the evaluations refreshed by the first save
\* are rendered), the percentages stored for the subject still sum to at most
\* 100 and every corte stays within its cap.
C27_SecondSaveKeepsBudgets ==
    \A subjectId \in Subjects :
        /\ StoredSum(StoredOf(subjectId)) <= 100
        /\ \A corte \in Cortes :
              StoredSum({k \in StoredOf(subjectId) : db.evaluations[k].corte = corte})
                 <= CORTE_PERCENTAGES[corte]

\* C28: under any interleaving of the steps of subject loads, add evaluation,
\* delete evaluation, enroll and update grade, also when the selected subject
\* changes while a handler is in flight, once no handler is in flight the
\* current students, evaluations and grades are the rows of the store for the
\* selected subject.
C28_SettledViewsHoldTheSelectedSubject ==
    inflight = <<>> =>
        /\ SameRows(students, dbGetEnrolledStudentsForSubject(db, selectedSubjectId))
        /\ SameRows(evaluations, dbGetEvaluationsForSubject(db, selectedSubjectId))
        /\ SameRows(grades, dbGetGradesForSubject(db, selectedSubjectId))

(***************************************************************************)
(* Opening the database and migrating the legacy localStorage keys         *)
(***************************************************************************)
LegacyKeys == {"students", "subjects", "evaluations", "grades", "enrollments"}

\* new SQL.Database() after createSchema; period: subjects has its period column
NewDatabase ==
    [students |-> <<>>, subjects |-> <<>>, evaluations |-> <<>>, grades |-> <<>>,
     enrollments |-> <<>>, period |-> TRUE]

\* what the legacy keys can hold: nothing, or one record each
LegacyRecord ==
    [students |-> Roster[1],
     subjects |-> [id |-> SubjectId, name |-> <<"M">>],
     evaluations |-> [id |-> 0, subjectId |-> SubjectId, corte |-> 1, name |-> <<"Q">>,
                      percentage |-> 30],
     grades |-> [studentId |-> Roster[1].id, evaluationId |-> 0, score |-> Some(15)],
     enrollments |-> [studentId |-> Roster[1].id, subjectId |-> SubjectId]]
LegacyContents ==
    {legacy \in [LegacyKeys -> {<<>>} \cup {<<LegacyRecord[key]>> : key \in LegacyKeys}] :
        \A key \in LegacyKeys : legacy[key] \in {<<>>, <<LegacyRecord[key]>>}}

\* the columns of the primary key of a table
SameKey(key, a, b) ==
    IF key = "enrollments" THEN a.studentId = b.studentId /\ a.subjectId = b.subjectId
    ELSE IF key = "grades" THEN a.studentId = b.studentId /\ a.evaluationId = b.evaluationId
    ELSE a.id = b.id

\* INSERT OR IGNORE of the rows, one after the other
RECURSIVE InsertAllOrIgnore(_, _, _)
InsertAllOrIgnore(key, table, rows) ==
    IF rows = <<>> THEN table
    ELSE InsertAllOrIgnore(key,
                           IF \E k \in 1..Len(table) : SameKey(key, table[k], Head(rows))
                           THEN table
                           ELSE Append(table, Head(rows)),
                           Tail(rows))

\* BEGIN TRANSACTION; the five forEach of INSERT OR IGNORE; COMMIT
MigratedDatabase(d, legacy) ==
    [d EXCEPT !.students = InsertAllOrIgnore("students", @, legacy.students),
              !.subjects = InsertAllOrIgnore("subjects", @, legacy.subjects),
              !.evaluations = InsertAllOrIgnore("evaluations", @, legacy.evaluations),
              !.enrollments = InsertAllOrIgnore("enrollments", @, legacy.enrollments),
              !.grades = InsertAllOrIgnore("grades", @, legacy.grades)]

\* saveDB: the export of the database under 'sqlite-db'
saveDB(storage, d) == [storage EXCEPT !.snapshot = Some(d)]

MigrateFrame == UNCHANGED <<variant, selectedSubjectId, students, evaluations, grades,
                            isEvalModalOpen, editingEvaluation, newEval, error, saved,
                            manualEntryError, rendered>>

\* the application starts: loadInitialData calls initDB
loadInitialData ==
    /\ db = Null
    /\ inflight = <<>>
    /\ inflight' = <<Started("initDB", Null, "open", <<>>)>>
    /\ UNCHANGED <<db, now, localStorage>>
    /\ MigrateFrame

\* initDB up to the test of the migrated flag: the database is read from
\* 'sqlite-db' or created, and saved if the period column had to be added
initDB ==
    LET opened == IF localStorage.snapshot # Null THEN localStorage.snapshot[1]
                  ELSE NewDatabase
        withPeriod == [opened EXCEPT !.period = TRUE]
    IN  /\ Suspended(1, "initDB", "open")
        /\ db' = Some(withPeriod)
        /\ localStorage' = IF opened.period THEN localStorage
                           ELSE saveDB(localStorage, withPeriod)
        /\ inflight' = IF localStorage.migrated THEN <<>>
                       ELSE [inflight EXCEPT ![1].pc = "migrate"]
        /\ UNCHANGED now
        /\ MigrateFrame

\* migrateFromLocalStorage with no legacy subjects and no legacy students
MigrateNothing ==
    /\ Suspended(1, "initDB", "migrate")
    /\ localStorage.legacy.subjects = <<>>
    /\ localStorage.legacy.students = <<>>
    /\ localStorage' = [localStorage EXCEPT !.migrated = TRUE]
    /\ inflight' = <<>>
    /\ UNCHANGED <<db, now>>
    /\ MigrateFrame

\* migrateFromLocalStorage: the transaction that copies the legacy records
MigrateInserts ==
    /\ Suspended(1, "initDB", "migrate")
    /\ ~(localStorage.legacy.subjects = <<>> /\ localStorage.legacy.students = <<>>)
    /\ db' = Some(MigratedDatabase(db[1], localStorage.legacy))
    /\ inflight' = [inflight EXCEPT ![1].pc = "flag"]
    /\ UNCHANGED <<now, localStorage>>
    /\ MigrateFrame

\* migrateFromLocalStorage: something throws before COMMIT; catch, ROLLBACK
MigrateFails ==
    /\ Suspended(1, "initDB", "migrate")
    /\ ~(localStorage.legacy.subjects = <<>> /\ localStorage.legacy.students = <<>>)
    /\ inflight' = <<>>
    /\ UNCHANGED <<db, now, localStorage>>
    /\ MigrateFrame

\* migrateFromLocalStorage: setItem(MIGRATED_KEY, 'true')
MigrateSetsFlag ==
    /\ Suspended(1, "initDB", "flag")
    /\ localStorage' = [localStorage EXCEPT !.migrated = TRUE]
    /\ inflight' = [inflight EXCEPT ![1].pc = "remove"]
    /\ UNCHANGED <<db, now>>
    /\ MigrateFrame

\* migrateFromLocalStorage: removeItem of the five legacy keys
MigrateRemovesKeys ==
    /\ Suspended(1, "initDB", "remove")
    /\ localStorage' = [localStorage EXCEPT !.legacy = [key \in LegacyKeys |-> <<>>]]
    /\ inflight' = <<>>
    /\ UNCHANGED <<db, now>>
    /\ MigrateFrame

\* a later write through the store: dbAddEvaluation ends with saveDB()
SavedAddEvaluation ==
    LET written == dbAddEvaluation(db[1], [name |-> <<"Q">>, percentage |-> 30, corte |-> 1],
                                   SubjectId, now)
    IN  /\ db # Null
        /\ inflight = <<>>
        /\ now <= MaxAdds
        /\ db' = Some(written)
        /\ now' = now + 1
        /\ localStorage' = saveDB(localStorage, written)
        /\ UNCHANGED inflight
        /\ MigrateFrame

\* the page is closed or reloaded: the database in memory is gone
ClosePage ==
    /\ db # Null \/ inflight # <<>>
    /\ db' = Null
    /\ inflight' = <<>>
    /\ UNCHANGED <<now, localStorage>>
    /\ MigrateFrame

InitMigrate ==
    /\ variant = "percorte"
    /\ selectedSubjectId = Null
    /\ manualEntryError = ""
    /\ inflight = <<>>
    \* no 'sqlite-db' yet, or a database exported before subjects had a period
    /\ \E legacy \in LegacyContents,
          snapshot \in {Null,
                        Some([NewDatabase EXCEPT
                                 !.subjects = <<[id |-> "subject-2", name |-> <<"N">>]>>,
                                 !.period = FALSE])} :
          localStorage = [legacy |-> legacy, snapshot |-> snapshot, migrated |-> FALSE]
    /\ db = Null
    /\ now = 1
    /\ students = <<>>
    /\ evaluations = <<>>
    /\ grades = <<>>
    /\ isEvalModalOpen = FALSE
    /\ editingEvaluation = Null
    /\ newEval = EmptyForm
    /\ error = NoError
    /\ saved = Null
    /\ rendered = NothingRendered

NextMigrate ==
    \/ loadInitialData
    \/ initDB
    \/ MigrateNothing
    \/ MigrateInserts
    \/ MigrateFails
    \/ MigrateSetsFlag
    \/ MigrateRemovesKeys
    \/ SavedAddEvaluation
    \/ ClosePage

SpecMigrate == InitMigrate /\ [][NextMigrate]_vars

UnderLegacyKey(storage, key, record) ==
    \E k \in 1..Len(storage.legacy[key]) : storage.legacy[key][k] = record
InSnapshot(storage, key, record) ==
    /\ storage.snapshot # Null
    /\ \E k \in 1..Len(storage.snapshot[1][key]) : storage.snapshot[1][key][k] = record

\* C29: during and after initDB and migrateFromLocalStorage every legacy
\* record (student, subject, evaluation, enrollment, grade) is either still
\* under its legacy key or in the database persisted under 'sqlite-db'; a
\* failed migration rolls back, keeps the legacy keys and leaves the migrated
\* flag unset.
C29_LegacyRecordsStayStored ==
    [][ /\ \A key \in LegacyKeys :
              UnderLegacyKey(localStorage, key, LegacyRecord[key]) =>
                 \/ UnderLegacyKey(localStorage', key, LegacyRecord[key])
                 \/ InSnapshot(localStorage', key, LegacyRecord[key])
        /\ MigrateFails =>
              /\ db' = db
              /\ localStorage'.legacy = localStorage.legacy
              /\ ~localStorage'.migrated
      ]_vars

====
